---- MODULE Spec2Model ----
(***************************************************************************)
(* Model of the Sequence rules engine (ncseq/game.py): the fixed board     *)
(* layout, the sequence catalog, Board.iter_moves, Board.put_chip,         *)
(* Board.remove_chip, Board.update_sequences and                           *)
(* Board.get_winning_sequences_for_team.                                   *)
(*                                                                         *)
(* A position is a pair <<row, col>> with 0 <= row, col <= 9.  The board   *)
(* (Board.chips, a 10 x 10 array of Chip or None) is a function from the   *)
(* positions that hold a chip to their chips; a position outside its       *)
(* domain holds None, which getpos returns as NoChip.  A Python exception  *)
(* raised by an operation is the field exc of the operation's result.      *)
(*                                                                         *)
(* play_game is modelled from its entry on: the tests of the setup, the    *)
(* seating, the deal from a shuffled deck, and the turns with their loop   *)
(* over dead cards, the move, the count of winning sequences and the draw. *)
(* A player is a number, 10 * team + place in the team; a hand and the     *)
(* deck are sequences of card names, and deck.pop() takes the last one.    *)
(***************************************************************************)
EXTENDS FiniteSets, Integers, Sequences, TLC

VARIABLES
    chips,      \* Board.chips: occupied position -> chip
    call,       \* the last Board operation called: name, arguments, exception
    before,     \* Board.chips as it was when that operation was called
    target,     \* the horizontal sequence being filled (row scenario only)
    it,         \* how many sequences the generators iter_all_sequences and
                \* iter_corner_sequences have yielded so far
    teams,      \* play_game's argument: the list of the teams' players lists
    pc,         \* where play_game stands: not called, raised, in a turn, returned
    the_board,  \* play_game's local board: "None" until Board(teams)
    players,    \* play_game's local players: the seating order
    params,     \* what set_game_parameters has passed to each player's strategy
    hands,      \* Player.hand of every player
    deck,       \* play_game's local deck; deck.pop() takes the last card
    turn,       \* number of turns begun
    idx,        \* position of the iterator of "for card in player.hand"
    offers,     \* the query_dead_card calls of the current turn and their answers
    actors,     \* the players notify_turn has announced, in order
    sequences,  \* play_game's local sequences: team -> its winning sequences
    keep_playing,  \* play_game's local keep_playing
    result,     \* what play_game has returned
    events,     \* the calls play_game has made since the top of the current
                \* turn's loop body, in order: <<name, player, detail>>
    game_overs, \* how many times play_game has called ui.game_over
    script,     \* the calls of put_chip a caller of the strategies is to make
    ret         \* what the last call of a strategy or of a reading method of
                \* the Board has returned

iterVars == <<it>>
gameVars ==
    <<teams, pc, the_board, players, params, hands, deck, turn, idx, offers, actors,
      sequences, keep_playing, result,
      events, game_overs, script, ret>>
vars == <<chips, call, before, target, iterVars, gameVars>>

----------------------------------------------------------------------------
(* Bounds of the model *)

\* number of non-corner cells the callers of Spec address
NumCells == 4
\* number of non-corner cells the players of SpecPlay use
NumPlayCells == 7
\* number of non-corner cells the team of SpecFill fills
NumFillCells == 9
\* largest number of teams passed to play_game
MaxTeams == 4
\* largest number of players of a team passed to play_game
MaxTeamSize == 6
\* number of non-corner cells the strategies of SpecGame play on
NumGameCells == 4
\* number of turns the players of SpecGame take
MaxTurns == 5

----------------------------------------------------------------------------
(* Cards, teams and the fixed layout *)

RANKS == <<"2", "3", "4", "5", "6", "7", "8", "9", "X", "J", "Q", "K", "A">>
SUITS == <<"H", "C", "D", "S">>

\* [f"{rank}{suit}" for rank in RANKS for suit in SUITS]
ranked_cards ==
    [i \in 1..(Len(RANKS) * Len(SUITS)) |->
        RANKS[((i - 1) \div Len(SUITS)) + 1] \o SUITS[((i - 1) % Len(SUITS)) + 1]]

\* two of every ranked card and one Joker
ALL_CARDS == ranked_cards \o ranked_cards \o <<"JJ">>

CORN == "CORN"

ONE_EYEDS == {"JS", "JH"}
TWO_EYEDS == {"JC", "JD"}

\* the layout with the 6D of row 0 replaced by a third 7D
positions_third_7D ==
    << <<CORN, "7D", "7D", "8D", "9D", "XD", "QD", "KD", "AD", CORN>>,
       <<"5D", "3H", "2H", "2S", "3S", "4S", "5S", "6S", "7S", "AC">>,
       <<"4D", "4H", "KD", "AD", "AC", "KC", "QC", "XC", "8S", "KC">>,
       <<"3D", "5H", "QD", "QH", "XH", "9H", "8H", "9C", "9S", "QC">>,
       <<"2D", "6H", "XD", "KH", "3H", "2H", "7H", "8C", "XS", "XC">>,
       <<"AS", "7H", "9D", "AH", "4H", "5H", "6H", "7C", "QS", "9C">>,
       <<"KS", "8H", "8D", "2C", "3C", "4C", "5C", "6C", "KS", "8C">>,
       <<"QS", "9H", "7D", "6D", "5D", "4D", "3D", "2D", "AS", "7C">>,
       <<"XS", "XH", "QH", "KH", "AH", "2C", "3C", "4C", "5C", "6C">>,
       <<CORN, "9S", "8S", "7S", "6S", "5S", "4S", "3S", "2S", CORN>> >>

positions ==
    << <<CORN, "6D", "7D", "8D", "9D", "XD", "QD", "KD", "AD", CORN>>,
       <<"5D", "3H", "2H", "2S", "3S", "4S", "5S", "6S", "7S", "AC">>,
       <<"4D", "4H", "KD", "AD", "AC", "KC", "QC", "XC", "8S", "KC">>,
       <<"3D", "5H", "QD", "QH", "XH", "9H", "8H", "9C", "9S", "QC">>,
       <<"2D", "6H", "XD", "KH", "3H", "2H", "7H", "8C", "XS", "XC">>,
       <<"AS", "7H", "9D", "AH", "4H", "5H", "6H", "7C", "QS", "9C">>,
       <<"KS", "8H", "8D", "2C", "3C", "4C", "5C", "6C", "KS", "8C">>,
       <<"QS", "9H", "7D", "6D", "5D", "4D", "3D", "2D", "AS", "7C">>,
       <<"XS", "XH", "QH", "KH", "AH", "2C", "3C", "4C", "5C", "6C">>,
       <<CORN, "9S", "8S", "7S", "6S", "5S", "4S", "3S", "2S", CORN>> >>

\* TeamColor: the two teams of a two-team match
Teams == {"BLUE", "GREEN"}

Pos == (0..9) \X (0..9)

\* iter_pos: all positions, row by row
iter_pos == [i \in 1..100 |-> <<(i - 1) \div 10, (i - 1) % 10>>]

\* Chip(team): a new chip is not flipped; None is NoChip
NoChip == [team |-> "None", flipped |-> FALSE]
Chip(team) == [team |-> team, flipped |-> FALSE]

\* what a chip stands for once the assertion of Chip.flip has failed on it
AssertionFailed == [team |-> "AssertionError", flipped |-> TRUE]

\* Chip.flip: assert not self._flipped, then set the flag
flip(chip) == IF chip.flipped THEN AssertionFailed ELSE [chip EXCEPT !.flipped = TRUE]

\* Chip.is_flipped
is_flipped(chip) == chip.flipped

\* Board.__init__: no chip anywhere
EmptyBoard == [p \in {} |-> NoChip]

\* Board.getpos: the fixed card and the chip at a position
getpos(board, pos) ==
    [card |-> positions[pos[1] + 1][pos[2] + 1],
     chip |-> IF pos \in DOMAIN board THEN board[pos] ELSE NoChip]

\* self.chips[row][column] = chip
setpos(board, pos, chip) ==
    IF chip = NoChip
    THEN [p \in DOMAIN board \ {pos} |-> board[p]]
    ELSE [p \in DOMAIN board \cup {pos} |-> IF p = pos THEN chip ELSE board[p]]

----------------------------------------------------------------------------
(* The sequence catalog *)

hrsequence(row, column) == {<<row, c>> : c \in column..(column + 4)}
vdsequence(row, column) == {<<r, column>> : r \in row..(row + 4)}
ddsequence(row, column) == {<<row + n, column + n>> : n \in 0..4}
dusequence(row, column) == {<<row - n, column + n>> : n \in 0..4}

\* sequence_gen_restrict(...).iter_inputs: rows outer, columns inner
iter_inputs(row0, nrows, col0, ncols) ==
    [i \in 1..(nrows * ncols) |-> <<row0 + ((i - 1) \div ncols), col0 + ((i - 1) % ncols)>>]

\* the inputs of hrsequence with range(5) for the columns
hr_inputs_short == iter_inputs(0, 10, 0, 5)

hr_inputs == iter_inputs(0, 10, 0, 6)
vd_inputs == iter_inputs(0, 6, 0, 10)
dd_inputs == iter_inputs(0, 6, 0, 6)
du_inputs == iter_inputs(4, 6, 0, 6)

iter_all_sequences ==
    [i \in 1..Len(hr_inputs) |-> hrsequence(hr_inputs[i][1], hr_inputs[i][2])]
    \o [i \in 1..Len(vd_inputs) |-> vdsequence(vd_inputs[i][1], vd_inputs[i][2])]
    \o [i \in 1..Len(dd_inputs) |-> ddsequence(dd_inputs[i][1], dd_inputs[i][2])]
    \o [i \in 1..Len(du_inputs) |-> dusequence(du_inputs[i][1], du_inputs[i][2])]

\* iter_corner_sequences with one diagonal that starts at the wrong cell
iter_corner_sequences_shifted ==
    << hrsequence(0, 0), vdsequence(0, 0), ddsequence(0, 0),
       hrsequence(0, 5), vdsequence(0, 9), dusequence(4, 4),
       hrsequence(9, 0), vdsequence(5, 0), dusequence(9, 0),
       hrsequence(9, 5), vdsequence(5, 9), ddsequence(5, 5) >>

\* iter_corner_sequences: top left, top right, bottom left, bottom right
iter_corner_sequences ==
    << hrsequence(0, 0), vdsequence(0, 0), ddsequence(0, 0),
       hrsequence(0, 5), vdsequence(0, 9), dusequence(4, 5),
       hrsequence(9, 0), vdsequence(5, 0), dusequence(9, 0),
       hrsequence(9, 5), vdsequence(5, 9), ddsequence(5, 5) >>

\* Board.iter_sequences() with no filter: the whole catalog, in order
iter_sequences == iter_all_sequences

\* non_corner_extension with "at least 4" for "exactly 4" shared cells
non_corner_extension_at_least(seq) ==
    \A i \in 1..Len(iter_corner_sequences) :
        Cardinality(seq \cap iter_corner_sequences[i]) < 4

\* iter_sequences' filter non_corner_extension: the sequence shares exactly 4
\* cells with no corner sequence
non_corner_extension(seq) ==
    \A i \in 1..Len(iter_corner_sequences) :
        Cardinality(seq \cap iter_corner_sequences[i]) # 4

\* "for pos in seq" over a set of positions visits them in an order the
\* language does not fix: any of these
Orders(seq) ==
    {order \in [1..Cardinality(seq) -> seq] : {order[k] : k \in DOMAIN order} = seq}

\* the order the model's callers take: by row, then by column
iter_set(seq) ==
    [k \in 1..Cardinality(seq) |->
        CHOOSE pos \in seq :
            Cardinality({q \in seq : \/ q[1] < pos[1]
                                     \/ q[1] = pos[1] /\ q[2] < pos[2]}) = k - 1]

\* possible that stops at the first chip of another team whatever the
\* one-eyed Jacks held
possible_no_budget(board, order, k, team, one_eyeds_have) ==
    \A n \in k..Len(order) :
        getpos(board, order[n]).chip = NoChip \/ getpos(board, order[n]).chip.team = team

\* iter_sequences' filter possible from the k-th cell of the visiting order
\* on: a chip of another team costs a one-eyed Jack while one is left and the
\* chip is not flipped, and makes the sequence impossible otherwise
RECURSIVE possible(_, _, _, _, _)
possible(board, order, k, team, one_eyeds_have) ==
    IF k > Len(order) THEN TRUE
    ELSE LET chip == getpos(board, order[k]).chip
         IN  IF chip # NoChip /\ chip.team # team
             THEN IF one_eyeds_have > 0 /\ ~is_flipped(chip)
                  THEN possible(board, order, k + 1, team, one_eyeds_have - 1)
                  ELSE FALSE
             ELSE possible(board, order, k + 1, team, one_eyeds_have)

\* iter_sequences' filter position_filter
position_filter(seq, includes_positions) ==
    \A k \in 1..Len(includes_positions) : includes_positions[k] \in seq

\* Board.iter_sequences with its keyword arguments; "None" stands for no
\* team and <<>> for no positions, the values that add no filter. A sequence
\* is yielded when every filter accepts it, whatever the order of the tests
iter_sequences_with(board, exclude_corner_extensions, exclude_impossible_for_team, one_eyeds_to_make_possible, includes_positions) ==
    SelectSeq(iter_all_sequences,
              LAMBDA seq :
                /\ includes_positions # <<>> => position_filter(seq, includes_positions)
                /\ exclude_corner_extensions => non_corner_extension(seq)
                /\ exclude_impossible_for_team # "None" =>
                        possible(board, iter_set(seq), 1, exclude_impossible_for_team,
                                 one_eyeds_to_make_possible))

IsCorner(pos) == positions[pos[1] + 1][pos[2] + 1] = CORN

----------------------------------------------------------------------------
(* Board.iter_moves *)

PLACE_CHIP == "PLACE_CHIP"
REMOVE_CHIP == "REMOVE_CHIP"

Move(card, action, pos) == [card |-> card, action |-> action, pos |-> pos]

\* removal_test without the test for a flipped chip
removal_test_flipped(board, team, pos) ==
    LET chip == getpos(board, pos).chip
    IN  /\ chip # NoChip
        /\ chip.team # team

removal_test(board, team, pos) ==
    LET chip == getpos(board, pos).chip
    IN  /\ chip # NoChip
        /\ chip.team # team
        /\ ~is_flipped(chip)

\* removal_moves that also offers the chips of the team itself
removal_moves_any_team(board, card, team) ==
    LET kept == SelectSeq(iter_pos, LAMBDA pos : getpos(board, pos).chip # NoChip
                                                  /\ ~is_flipped(getpos(board, pos).chip))
    IN  [i \in 1..Len(kept) |-> Move(card, REMOVE_CHIP, kept[i])]

removal_moves(board, card, team) ==
    LET kept == SelectSeq(iter_pos, LAMBDA pos : removal_test(board, team, pos))
    IN  [i \in 1..Len(kept) |-> Move(card, REMOVE_CHIP, kept[i])]

\* place_test without the test for a corner
place_test_corner(board, card, pos) ==
    LET here == getpos(board, pos)
    IN  /\ ~(here.chip # NoChip)
        /\ (here.card = card \/ card \in TWO_EYEDS \/ card = "JJ")

place_test(board, card, pos) ==
    LET here == getpos(board, pos)
    IN  /\ ~(here.chip # NoChip \/ here.card = CORN)
        /\ (here.card = card \/ card \in TWO_EYEDS \/ card = "JJ")

place_moves(board, card) ==
    LET kept == SelectSeq(iter_pos, LAMBDA pos : place_test(board, card, pos))
    IN  [i \in 1..Len(kept) |-> Move(card, PLACE_CHIP, kept[i])]

\* iter_moves with the removal moves offered to every Jack
iter_moves_any_jack(board, card, team) ==
    (IF card \in ONE_EYEDS \/ card \in TWO_EYEDS \/ card = "JJ"
     THEN removal_moves(board, card, team) ELSE <<>>)
    \o (IF card \notin ONE_EYEDS THEN place_moves(board, card) ELSE <<>>)

iter_moves(board, card, team) ==
    (IF card \in ONE_EYEDS \/ card = "JJ" THEN removal_moves(board, card, team) ELSE <<>>)
    \o (IF card \notin ONE_EYEDS THEN place_moves(board, card) ELSE <<>>)

----------------------------------------------------------------------------
(* Board.update_sequences *)

\* has_winner without the comparison of the teams
has_winner_any_team(board, seq) ==
    \A pos \in seq : IsCorner(pos) \/ pos \in DOMAIN board

\* The inner loop of update_sequences runs to its else branch: corners are
\* skipped, no other cell is empty and no chip differs from the team seen
\* before it.  The loop visits the cells of a set, and its outcome is the same
\* in every order: all the chips of the sequence have one team.
has_winner(board, seq) ==
    /\ \A pos \in seq : IsCorner(pos) \/ pos \in DOMAIN board
    /\ \A p \in seq : \A q \in seq :
            IsCorner(p) \/ IsCorner(q) \/ board[p].team = board[q].team

\* update_sequences without the test "not chip.is_flipped()" before chip.flip()
update_sequences_unguarded(board) ==
    LET won == {i \in 1..Len(iter_sequences) : has_winner(board, iter_sequences[i])}
    IN  IF won = {} THEN board
        ELSE [pos \in DOMAIN board |->
                IF \E i \in won : pos \in iter_sequences[i]
                THEN flip(board[pos])
                ELSE board[pos]]

\* update_sequences that flips every unflipped chip of the board when a
\* sequence has a winner
update_sequences_every_chip(board) ==
    LET won == {i \in 1..Len(iter_sequences) : has_winner(board, iter_sequences[i])}
    IN  IF won = {} THEN board
        ELSE [pos \in DOMAIN board |->
                IF ~is_flipped(board[pos]) THEN flip(board[pos]) ELSE board[pos]]

\* The outer loop and its else branch: every chip that is not flipped yet and
\* lies on a sequence that has a winner is flipped.  has_winner does not read
\* the flipped flag, so the flips made for one sequence change the test of no
\* later sequence, and the loop over the catalog is this single pass.
update_sequences(board) ==
    LET won == {i \in 1..Len(iter_sequences) : has_winner(board, iter_sequences[i])}
    IN  IF won = {} THEN board
        ELSE [pos \in DOMAIN board |->
                IF /\ ~is_flipped(board[pos])
                   /\ \E i \in won : pos \in iter_sequences[i]
                THEN flip(board[pos])
                ELSE board[pos]]

----------------------------------------------------------------------------
(* Board.put_chip and Board.remove_chip *)

Result(exc, board) == [exc |-> exc, chips |-> board]

\* put_chip without the test for a corner
put_chip_corner(board, card, pos, team) ==
    LET here == getpos(board, pos)
    IN  IF card \in ONE_EYEDS THEN Result("IllegalMove", board)
        ELSE IF here.chip # NoChip THEN Result("IllegalMove", board)
        ELSE IF ~(card \in TWO_EYEDS \/ card = "JJ") /\ card # here.card
             THEN Result("IllegalMove", board)
        ELSE Result("None", update_sequences(setpos(board, pos, Chip(team))))

\* put_chip without the test for a chip already at pos
put_chip_overwrite(board, card, pos, team) ==
    LET here == getpos(board, pos)
    IN  IF here.card = CORN THEN Result("IllegalMove", board)
        ELSE IF card \in ONE_EYEDS THEN Result("IllegalMove", board)
        ELSE IF ~(card \in TWO_EYEDS \/ card = "JJ") /\ card # here.card
             THEN Result("IllegalMove", board)
        ELSE Result("None", update_sequences(setpos(board, pos, Chip(team))))

\* put_chip without the call of update_sequences
put_chip_no_update(board, card, pos, team) ==
    LET here == getpos(board, pos)
    IN  IF here.card = CORN THEN Result("IllegalMove", board)
        ELSE IF card \in ONE_EYEDS THEN Result("IllegalMove", board)
        ELSE IF here.chip # NoChip THEN Result("IllegalMove", board)
        ELSE IF ~(card \in TWO_EYEDS \/ card = "JJ") /\ card # here.card
             THEN Result("IllegalMove", board)
        ELSE Result("None", setpos(board, pos, Chip(team)))

put_chip(board, card, pos, team) ==
    LET here == getpos(board, pos)
    IN  IF here.card = CORN THEN Result("IllegalMove", board)
        ELSE IF card \in ONE_EYEDS THEN Result("IllegalMove", board)
        ELSE IF here.chip # NoChip THEN Result("IllegalMove", board)
        ELSE IF ~(card \in TWO_EYEDS \/ card = "JJ") /\ card # here.card
             THEN Result("IllegalMove", board)
        ELSE Result("None", update_sequences(setpos(board, pos, Chip(team))))

\* remove_chip without the test for a flipped chip
remove_chip_flipped(board, card, pos, team) ==
    LET here == getpos(board, pos)
    IN  IF here.chip = NoChip THEN Result("IllegalMove", board)
        ELSE IF here.card = CORN THEN Result("AssertionError", board)
        ELSE IF here.chip.team = team THEN Result("IllegalMove", board)
        ELSE IF card # "JJ" /\ card \notin ONE_EYEDS THEN Result("IllegalMove", board)
        ELSE Result("None", setpos(board, pos, NoChip))

\* remove_chip without the test for the caller's own chip
remove_chip_own(board, card, pos, team) ==
    LET here == getpos(board, pos)
    IN  IF here.chip = NoChip THEN Result("IllegalMove", board)
        ELSE IF here.card = CORN THEN Result("AssertionError", board)
        ELSE IF is_flipped(here.chip) THEN Result("IllegalMove", board)
        ELSE IF card # "JJ" /\ card \notin ONE_EYEDS THEN Result("IllegalMove", board)
        ELSE Result("None", setpos(board, pos, NoChip))

\* remove_chip that accepts the Joker alone
remove_chip_joker(board, card, pos, team) ==
    LET here == getpos(board, pos)
    IN  IF here.chip = NoChip THEN Result("IllegalMove", board)
        ELSE IF here.card = CORN THEN Result("AssertionError", board)
        ELSE IF is_flipped(here.chip) THEN Result("IllegalMove", board)
        ELSE IF here.chip.team = team THEN Result("IllegalMove", board)
        ELSE IF card # "JJ" THEN Result("IllegalMove", board)
        ELSE Result("None", setpos(board, pos, NoChip))

\* remove_chip without the tests of the chip
remove_chip_any_chip(board, card, pos, team) ==
    LET here == getpos(board, pos)
    IN  IF here.chip = NoChip THEN Result("IllegalMove", board)
        ELSE IF here.card = CORN THEN Result("AssertionError", board)
        ELSE IF card # "JJ" /\ card \notin ONE_EYEDS THEN Result("IllegalMove", board)
        ELSE Result("None", setpos(board, pos, NoChip))

remove_chip(board, card, pos, team) ==
    LET here == getpos(board, pos)
    IN  IF here.chip = NoChip THEN Result("IllegalMove", board)
        ELSE IF here.card = CORN THEN Result("AssertionError", board)
        ELSE IF is_flipped(here.chip) THEN Result("IllegalMove", board)
        ELSE IF here.chip.team = team THEN Result("IllegalMove", board)
        ELSE IF card # "JJ" /\ card \notin ONE_EYEDS THEN Result("IllegalMove", board)
        ELSE Result("None", setpos(board, pos, NoChip))

----------------------------------------------------------------------------
(* Board.get_winning_sequences_for_team *)

\* all_flipped_for without the comparison of the chip's team
all_flipped_for_any_team(board, team, seq) ==
    \A pos \in seq :
        \/ IsCorner(pos)
        \/ LET chip == getpos(board, pos).chip
           IN  ~(chip = NoChip \/ ~is_flipped(chip))

\* the inner loop runs to its else branch
all_flipped_for(board, team, seq) ==
    \A pos \in seq :
        \/ IsCorner(pos)
        \/ LET chip == getpos(board, pos).chip
           IN  ~(chip = NoChip \/ chip.team # team \/ ~is_flipped(chip))

\* The loop over the catalog.  A sequence is appended iff its inner loop runs
\* to the else branch and it shares more than 1 cell with no sequence appended
\* before it; the sequences whose inner loop breaks are never appended, so the
\* loop is run over the others, in catalog order.
\* overlaps with the threshold raised to the whole sequence
overlaps_whole(winning_sequences, seq) ==
    \E k \in 1..Len(winning_sequences) : Cardinality(winning_sequences[k] \cap seq) > 4

\* any(len(w & seq) > 1 for w in winning_sequences)
overlaps(winning_sequences, seq) ==
    \E k \in 1..Len(winning_sequences) : Cardinality(winning_sequences[k] \cap seq) > 1

\* the loop over the catalog that ends at the first sequence it appends
winning_from_first(candidates, i, winning_sequences) ==
    IF i > Len(candidates) THEN winning_sequences ELSE Append(winning_sequences, candidates[i])

RECURSIVE winning_from(_, _, _)
winning_from(candidates, i, winning_sequences) ==
    IF i > Len(candidates) THEN winning_sequences
    ELSE IF overlaps(winning_sequences, candidates[i])
         THEN winning_from(candidates, i + 1, winning_sequences)
         ELSE winning_from(candidates, i + 1, Append(winning_sequences, candidates[i]))

get_winning_sequences_for_team(board, team) ==
    winning_from(SelectSeq(iter_sequences, LAMBDA seq : all_flipped_for(board, team, seq)),
                 1, <<>>)

----------------------------------------------------------------------------
(* The callers of the Board *)

\* the cells the callers address, in the order the bounds take them
CellOrder ==
    << <<0, 1>>, <<0, 2>>, <<0, 3>>, <<0, 4>>, <<0, 5>>, <<1, 0>>, <<2, 0>>, <<0, 6>> >>
FillCellOrder ==
    << <<0, 1>>, <<0, 2>>, <<0, 3>>, <<0, 4>>, <<1, 0>>, <<2, 0>>, <<3, 0>>, <<4, 0>>,
       <<0, 5>>, <<0, 6>>, <<5, 0>> >>

Cells == {CellOrder[i] : i \in 1..NumCells}
PlayCells == {CellOrder[i] : i \in 1..NumPlayCells}
FillCells == {FillCellOrder[i] : i \in 1..NumFillCells}

\* the cards the callers play: a one-eyed Jack, a two-eyed Jack, the Joker and
\* a ranked card (the fixed card of <<0, 1>> and <<7, 3>>)
CardInputs == {"JS", "JC", "JJ", "6D"}

NoCall == [op |-> "init", card |-> "None", pos |-> <<0, 0>>, team |-> "None", exc |-> "None"]

\* no generator has yielded anything
InitIter == it = [all |-> 0, corner |-> 0]

\* a Board exists and play_game is not running
NoGame ==
    /\ teams = <<>>
    /\ pc = "idle"
    /\ the_board = "Board"
    /\ players = <<>>
    /\ params = <<>>
    /\ hands = <<>>
    /\ deck = <<>>
    /\ turn = 0
    /\ idx = 0
    /\ offers = <<>>
    /\ actors = <<>>
    /\ sequences = <<>>
    /\ keep_playing = FALSE
    /\ result = "None"
    /\ events = <<>>
    /\ game_overs = 0
    /\ script = <<>>
    /\ ret = [op |-> "None"]

Init ==
    /\ chips = EmptyBoard
    /\ call = NoCall
    /\ before = EmptyBoard
    /\ target = {}
    /\ InitIter
    /\ NoGame

\* a call of board.put_chip(card, pos, team)
PutChip(card, pos, team) ==
    \E r \in {put_chip(chips, card, pos, team)} :
        /\ chips' = r.chips
        /\ call' = [op |-> "put_chip", card |-> card, pos |-> pos, team |-> team, exc |-> r.exc]
        /\ before' = chips
        /\ UNCHANGED <<target, iterVars, gameVars>>

\* a call of board.remove_chip(card, pos, team)
RemoveChip(card, pos, team) ==
    \E r \in {remove_chip(chips, card, pos, team)} :
        /\ chips' = r.chips
        /\ call' = [op |-> "remove_chip", card |-> card, pos |-> pos, team |-> team, exc |-> r.exc]
        /\ before' = chips
        /\ UNCHANGED <<target, iterVars, gameVars>>

\* any caller: any card, any team, any addressed cell or the corner <<0, 0>>
Next ==
    \E card \in CardInputs : \E team \in Teams :
        \/ \E pos \in Cells \cup {<<0, 0>>} : PutChip(card, pos, team)
        \/ \E pos \in Cells \cup {<<0, 0>>} : RemoveChip(card, pos, team)

Spec == Init /\ [][Next]_vars

----------------------------------------------------------------------------
(* Legal play: every step applies a move that iter_moves yields, as          *)
(* play_game does with the move of a strategy that plays by the rules.  The  *)
(* state of this specification is the board alone: it keeps no record of the *)
(* last call.                                                                *)

PlayInputs == {"JS", "JC"}

\* board.put_chip(card, pos, player.team) or board.remove_chip(card, pos, player.team)
ApplyMove(move, team) ==
    \E r \in {IF move.action = PLACE_CHIP
               THEN put_chip(chips, move.card, move.pos, team)
               ELSE remove_chip(chips, move.card, move.pos, team)} :
        /\ chips' = r.chips
        /\ UNCHANGED <<call, before, target, iterVars, gameVars>>

PlayMove(card, team) ==
    \E moves \in {iter_moves(chips, card, team)} :
        \E i \in 1..Len(moves) :
            /\ moves[i].pos \in PlayCells
            /\ ApplyMove(moves[i], team)

NextPlay == \E card \in PlayInputs : \E team \in Teams : PlayMove(card, team)

SpecPlay == Init /\ [][NextPlay]_vars

----------------------------------------------------------------------------------------------------------------------------------------------
(* Filling: one team places chips on every cell of a target, in any order,  *)
(* on an otherwise empty board.  The target is a horizontal sequence of     *)
(* five non-corner cells, or the cells FillCells around the corner <<0, 0>>.*)

RowTargets ==
    {seq \in {iter_all_sequences[i] : i \in 1..Len(hr_inputs)} :
        \A pos \in seq : ~IsCorner(pos)}

InitFill ==
    /\ chips = EmptyBoard
    /\ call = NoCall
    /\ before = EmptyBoard
    /\ target \in RowTargets \cup {FillCells}
    /\ InitIter
    /\ NoGame

FillCell(pos, team) ==
    /\ call.op = "init" \/ call.team = team
    /\ pos \notin DOMAIN chips
    /\ PutChip("JC", pos, team)

NextFill == \E pos \in target : \E team \in Teams : FillCell(pos, team)

SpecFill == InitFill /\ [][NextFill]_vars

----------------------------------------------------------------------------
(* The generators: a caller takes the sequences of iter_all_sequences and   *)
(* of iter_corner_sequences one by one.                                     *)

\* next() on the generator iter_all_sequences()
NextSequence ==
    /\ it.all < Len(iter_all_sequences)
    /\ it' = [it EXCEPT !.all = @ + 1]
    /\ UNCHANGED <<chips, call, before, target, gameVars>>

\* next() on the generator iter_corner_sequences()
NextCornerSequence ==
    /\ it.corner < Len(iter_corner_sequences)
    /\ it' = [it EXCEPT !.corner = @ + 1]
    /\ UNCHANGED <<chips, call, before, target, gameVars>>

NextCatalog == NextSequence \/ NextCornerSequence

SpecCatalog == Init /\ [][NextCatalog]_vars

----------------------------------------------------------------------------
(* play_game: the setup *)

\* TeamColor
TeamColors == <<"BLUE", "GREEN", "RED">>

\* the k-th player that add_player has added to the t-th team, and
\* Player.team of a player
PlayerId(t, k) == 10 * t + k
TeamOf(player) == player \div 10

Range(seq) == {seq[i] : i \in 1..Len(seq)}

\* every Player of the teams
AllPlayers(ts) == UNION {Range(ts[t]) : t \in 1..Len(ts)}

\* the seating that lists the teams one after the other
zip_players_by_team(ts) ==
    IF ts = <<>> THEN <<>>
    ELSE LET shortest == CHOOSE n \in {Len(ts[t]) : t \in 1..Len(ts)} :
                            \A t \in 1..Len(ts) : n <= Len(ts[t])
         IN  [i \in 1..(shortest * Len(ts)) |->
                ts[((i - 1) \div shortest) + 1][((i - 1) % shortest) + 1]]

\* for group in zip(*(team.players for team in teams)): players += group
zip_players(ts) ==
    IF ts = <<>> THEN <<>>
    ELSE LET shortest == CHOOSE n \in {Len(ts[t]) : t \in 1..Len(ts)} :
                            \A t \in 1..Len(ts) : n <= Len(ts[t])
         IN  [i \in 1..(shortest * Len(ts)) |->
                ts[((i - 1) % Len(ts)) + 1][((i - 1) \div Len(ts)) + 1]]

\* the hand-size table with 6 cards for 6 players
cards_in_hand_table_6_6 ==
    (2 :> 7) @@ (3 :> 6) @@ (4 :> 6) @@ (6 :> 6) @@ (8 :> 4) @@ (9 :> 4) @@ (10 :> 3)
    @@ (12 :> 3)

\* the table that gives cards_in_hand for len(players)
cards_in_hand_table ==
    (2 :> 7) @@ (3 :> 6) @@ (4 :> 6) @@ (6 :> 5) @@ (8 :> 4) @@ (9 :> 4) @@ (10 :> 3)
    @@ (12 :> 3)

\* setup_error without the test that the teams are disjoint
setup_error_no_disjoint(ts) ==
    IF Len(ts) \notin {2, 3} THEN "GameSetupError"
    ELSE IF \E t \in 1..Len(ts) : Len(ts[t]) # Len(ts[1]) THEN "GameSetupError"
    ELSE IF Len(ts[1]) = 0 THEN "GameSetupError"
    ELSE IF Len(ts) = 2 /\ Len(ts[1]) > 5 THEN "GameSetupError"
    ELSE IF Len(ts) = 3 /\ Len(ts[1]) > 4 THEN "GameSetupError"
    ELSE IF Len(zip_players(ts)) \notin DOMAIN cards_in_hand_table THEN "KeyError"
    ELSE "None"

\* the exception play_game raises before it creates the Board, "None" if it
\* raises none: the tests of the setup in their order, then the table lookup
setup_error(ts) ==
    IF Len(ts) \notin {2, 3} THEN "GameSetupError"
    ELSE IF \E t \in 1..Len(ts) : Len(ts[t]) # Len(ts[1]) THEN "GameSetupError"
    ELSE IF Len(ts[1]) = 0 THEN "GameSetupError"
    ELSE IF Len(ts) = 2 /\ Len(ts[1]) > 5 THEN "GameSetupError"
    ELSE IF Len(ts) = 3 /\ Len(ts[1]) > 4 THEN "GameSetupError"
    ELSE IF Cardinality(Range(zip_players(ts))) # Len(zip_players(ts)) THEN "GameSetupError"
    ELSE IF Len(zip_players(ts)) \notin DOMAIN cards_in_hand_table THEN "KeyError"
    ELSE "None"

\* two sequences to win whatever the number of teams
sequences_to_win_two(ts) == 2

sequences_to_win(ts) == IF Len(ts) = 2 THEN 2 ELSE 1

\* list.remove(x): the list without the first x
remove_first(list, x) ==
    IF \A i \in 1..Len(list) : list[i] # x THEN list
    ELSE LET first == CHOOSE i \in 1..Len(list) :
                        list[i] = x /\ \A j \in 1..(i - 1) : list[j] # x
         IN  SubSeq(list, 1, first - 1) \o SubSeq(list, first + 1, Len(list))

RECURSIVE remove_each(_, _)
remove_each(list, xs) ==
    IF xs = <<>> THEN list ELSE remove_each(remove_first(list, Head(xs)), Tail(xs))

Reverse(list) == [i \in 1..Len(list) |-> list[Len(list) + 1 - i]]

\* an outcome of random.shuffle(deck) in which deck.pop() returns the cards of
\* top, in this order, before any other card
Stacked(top) == remove_each(ALL_CARDS, top) \o Reverse(top)

\* the cards a match deals and draws first: with two players the first hand
\* holds both 6D and the two-eyed Jacks that can cover both cells of 6D; with
\* four players every hand holds a card that can be played on GameCells
TwoPlayerTop ==
    <<"6D", "6D", "JC", "JD", "2S", "2S", "3S",
      "7D", "7D", "JS", "JH", "3S", "4S", "4S",
      "8D", "JJ", "8D", "JC",
      "JH", "9D", "9D", "XD", "XD", "QD">>

\* the cards of a match in which the first player is dealt a one-eyed Jack
\* and cards of cells far from GameCells
OneEyedTop ==
    <<"JS", "2S", "2S", "3S", "3S", "4S", "4S",
      "JH", "5S", "5S", "6S", "6S", "7S", "7S">>

\* the outcomes of random.shuffle the model follows
Shuffles == {Stacked(TwoPlayerTop), Stacked(OneEyedTop)}

\* the cards the seat-th player of the seating order is dealt: n times deck.pop()
deal_hand(shuffled, seat, n) ==
    [k \in 1..n |-> shuffled[Len(shuffled) - ((seat - 1) * n) - (k - 1)]]

\* all the cards dealt to one player, seat after seat
RECURSIVE dealt_to(_, _, _, _, _)
dealt_to(shuffled, seating, n, player, seat) ==
    IF seat > Len(seating) THEN <<>>
    ELSE (IF seating[seat] = player THEN deal_hand(shuffled, seat, n) ELSE <<>>)
         \o dealt_to(shuffled, seating, n, player, seat + 1)

\* play_game from its entry to the end of the deal: it raises, or it seats the
\* players, creates the Board, passes the game parameters to every strategy,
\* shuffles and deals
StartGameFrom(shuffles) ==
    /\ pc = "entry"
    /\ \E exc \in {setup_error(teams)} :
        IF exc # "None"
        THEN /\ pc' = exc
             /\ UNCHANGED <<chips, the_board, players, params, hands, deck>>
        ELSE \E seating \in {zip_players(teams)} :
             \E n \in {cards_in_hand_table[Len(seating)]} :
             \E shuffled \in shuffles :
                /\ pc' = "cycle"
                /\ players' = seating
                /\ the_board' = "Board"
                /\ chips' = EmptyBoard
                /\ params' = [player \in Range(seating) |->
                                [sequences_to_win |-> sequences_to_win(teams),
                                 cards_in_hand |-> n]]
                /\ hands' = [player \in DOMAIN hands |->
                                hands[player] \o dealt_to(shuffled, seating, n, player, 1)]
                /\ deck' = SubSeq(shuffled, 1, Len(shuffled) - (n * Len(seating)))
    /\ UNCHANGED <<call, before, target, iterVars, teams, turn, idx, offers, actors,
                   sequences, keep_playing, result, events, game_overs, script, ret>>

\* random.shuffle leaves one of the orders Shuffles
StartGame == StartGameFrom(Shuffles)

\* the teams of a setup: team t has sizes[t] players; with dup = "across" the
\* first player of team 1 is also the first player of team 2, with
\* dup = "within" the first player of team 1 is also its second player
SetupTeams(sizes, dup) ==
    [t \in 1..Len(sizes) |->
        [k \in 1..sizes[t] |->
            IF dup = "across" /\ t = 2 /\ k = 1 /\ sizes[1] > 0 THEN PlayerId(1, 1)
            ELSE IF dup = "within" /\ t = 1 /\ k = 2 THEN PlayerId(1, 1)
            ELSE PlayerId(t, k)]]

SetupInputs ==
    {SetupTeams(sizes, dup) :
        sizes \in UNION {[1..n -> 0..MaxTeamSize] : n \in 0..MaxTeams},
        dup \in {"none", "across", "within"}}

\* play_game has been called with the teams ts; every Player.hand is empty
\* as Player.__init__ left it; calls are the moves a script holds, if any
Entry(ts, calls) ==
    /\ chips = EmptyBoard
    /\ call = NoCall
    /\ before = EmptyBoard
    /\ target = {}
    /\ InitIter
    /\ teams = ts
    /\ pc = "entry"
    /\ the_board = "None"
    /\ players = <<>>
    /\ params = <<>>
    /\ hands = [player \in AllPlayers(ts) |-> <<>>]
    /\ deck = <<>>
    /\ turn = 0
    /\ idx = 0
    /\ offers = <<>>
    /\ actors = <<>>
    /\ sequences = <<>>
    /\ keep_playing = FALSE
    /\ result = "None"
    /\ events = <<>>
    /\ game_overs = 0
    /\ script = calls
    /\ ret = [op |-> "None"]

GameEntry(ts) == Entry(ts, <<>>)

InitSetup == \E ts \in SetupInputs : GameEntry(ts)

NextSetup == StartGame

SpecSetup == InitSetup /\ [][NextSetup]_vars

----------------------------------------------------------------------------
(* play_game: the turns *)

\* the cells the strategies play on, in the order the bound takes them: the
\* two cells of 6D, the two cells of 7D, then more cells of row 0
GameCellOrder ==
    << <<0, 1>>, <<7, 3>>, <<0, 2>>, <<7, 2>>, <<0, 3>>, <<0, 4>>, <<0, 5>>, <<0, 6>> >>
GameCells == {GameCellOrder[i] : i \in 1..NumGameCells}

\* the n-th player of itertools.cycle(players)
Seat(n) == players[((n - 1) % Len(players)) + 1]

\* player.team as the board knows it
Color(player) == TeamColors[TeamOf(player)]

\* the first team of the dict whatever the numbers of winning sequences
max_sequences_first(seqs) ==
    IF seqs = <<>> THEN "ValueError" ELSE TeamColors[1]

\* max(sequences, key=lambda k: len(sequences[k])): the first team with the
\* most winning sequences; max() of an empty dict raises ValueError
max_sequences(seqs) ==
    IF seqs = <<>> THEN "ValueError"
    ELSE TeamColors[CHOOSE t \in DOMAIN seqs :
            /\ \A u \in DOMAIN seqs : Len(seqs[u]) <= Len(seqs[t])
            /\ \A u \in DOMAIN seqs : u < t => Len(seqs[u]) < Len(seqs[t])]

\* the players a notification goes to: "for notify_player in players" with
\* "if notify_player is player: continue"
others(seating, player) == SelectSeq(seating, LAMBDA q : q # player)

\* the top of the for loop before the turn number bound: the game ends at a
\* player with an empty hand, otherwise notify_turn announces the player, the
\* board is shown and the loop over the hand starts
BeginTurnBefore(bound) ==
    /\ pc = "cycle"
    /\ turn < bound
    /\ \E player \in {Seat(turn + 1)} :
        IF hands[player] = <<>>
        THEN /\ pc' = "returned"
             /\ result' = max_sequences(sequences)
             /\ events' = << <<"player_has_empty_hand", player, "">> >>
             /\ UNCHANGED <<turn, actors, idx, offers>>
        ELSE /\ pc' = "dead_cards"
             /\ turn' = turn + 1
             /\ actors' = Append(actors, player)
             /\ idx' = 1
             /\ offers' = <<>>
             /\ events' = << <<"notify_turn", player, "">>, <<"update_board", player, "">> >>
             /\ UNCHANGED result
    /\ UNCHANGED <<chips, call, before, target, iterVars, teams, the_board, players,
                   params, hands, deck, sequences, keep_playing, game_overs, script, ret>>

BeginTurn == BeginTurnBefore(MaxTurns)

\* "for card in player.hand" from the iterator position from on: the position
\* of the first card that is no one-eyed Jack and for which next(iter_moves)
\* raises StopIteration, 0 if the loop ends without one
next_dead(hand, from, board, team) ==
    LET dead == {j \in from..Len(hand) :
                    hand[j] \notin ONE_EYEDS /\ iter_moves(board, hand[j], team) = <<>>}
    IN  IF dead = {} THEN 0 ELSE CHOOSE j \in dead : \A k \in dead : j <= k

\* a deck that keeps the card a player draws
popped_none(cards) == cards

\* deck.pop() and hand.append(card) if the deck holds a card
draw(hand, cards) == IF cards = <<>> THEN hand ELSE Append(hand, cards[Len(cards)])
popped(cards) == IF cards = <<>> THEN cards ELSE SubSeq(cards, 1, Len(cards) - 1)

\* "if deck:" with deck.pop(), notify_pickup and hand.append
pickup_events(player, cards) ==
    IF cards = <<>> THEN <<>> ELSE << <<"deck.pop", player, cards[Len(cards)]>>,
                                      <<"notify_pickup", player, cards[Len(cards)]>> >>

\* the calls of one query_dead_card and of what follows its answer
dead_card_events(seating, player, card, answer, cards) ==
    IF answer
    THEN << <<"query_dead_card", player, card>>,
            <<"ui.notify_dead_card_discard", player, card>> >>
         \o [k \in 1..Len(others(seating, player)) |->
                <<"notify_dead_card_discard", others(seating, player)[k], card>>]
         \o pickup_events(player, cards)
    ELSE << <<"query_dead_card", player, card>> >>

\* the loop over the hand up to and including its next query_dead_card, or to
\* its end: the strategy answers with one of answers, an accepted card leaves
\* the hand, a card is drawn, and the list iterator moves on by one position
DeadCardsAnswering(answers) ==
    /\ pc = "dead_cards"
    /\ \E player \in {Seat(turn)} :
       \E j \in {next_dead(hands[player], idx, chips, Color(player))} :
        IF j = 0
        THEN /\ pc' = "query_move"
             /\ idx' = Len(hands[player]) + 1
             /\ UNCHANGED <<hands, deck, offers, events>>
        ELSE \E answer \in answers :
             /\ pc' = "dead_cards"
             /\ idx' = j + 1
             /\ offers' = Append(offers, [card |-> hands[player][j], answer |-> answer])
             /\ events' = events \o
                    dead_card_events(players, player, hands[player][j], answer, deck)
             /\ IF answer
                THEN /\ hands' = [hands EXCEPT
                            ![player] = draw(remove_first(@, hands[player][j]), deck)]
                     /\ deck' = popped(deck)
                ELSE UNCHANGED <<hands, deck>>
    /\ UNCHANGED <<chips, call, before, target, iterVars, teams, the_board, players,
                   params, turn, actors, sequences, keep_playing, result, game_overs,
                   script, ret>>

DeadCards == DeadCardsAnswering(BOOLEAN)

\* RandomStrategy.query_move's list: the moves of every card of the hand, in
\* the order of the hand
RECURSIVE all_moves_from(_, _, _, _)
all_moves_from(j, hand, board, team) ==
    IF j > Len(hand) THEN <<>>
    ELSE iter_moves(board, hand[j], team) \o all_moves_from(j + 1, hand, board, team)

\* what HumanStrategy.query_move may return, which is what the UI returns:
\* a card of the hand with either action on a cell of GameCells, whether
\* iter_moves yields the move or not
HumanStrategy_query_move(hand) ==
    {Move(card, action, pos) :
        card \in Range(hand), action \in {PLACE_CHIP, REMOVE_CHIP}, pos \in GameCells}

\* what a strategy's query_move may return. "random": random.choice over the
\* list, on the cells GameCells; "first": the choice of the list's element 0;
\* "human": the UI's move
RandomStrategy_query_move(strategy, hand, board, team) ==
    IF strategy = "human" THEN HumanStrategy_query_move(hand)
    ELSE IF strategy = "first"
    THEN LET live == {j \in 1..Len(hand) : iter_moves(board, hand[j], team) # <<>>}
         IN  IF live = {} THEN {}
             ELSE {iter_moves(board, hand[CHOOSE j \in live : \A k \in live : j <= k],
                              team)[1]}
    ELSE {m \in Range(all_moves_from(1, hand, board, team)) : m.pos \in GameCells}

\* the calls of the turn from query_move on, with the draw ahead of the
\* count of the winning sequences
move_events_draw_first(seating, player, move, won, game_over, cards) ==
    << <<"query_move", player, move.card>>,
       <<IF move.action = PLACE_CHIP THEN "put_chip" ELSE "remove_chip", player, move.card>>,
       <<IF move.action = PLACE_CHIP THEN "ui.play_chip" ELSE "ui.remove_chip",
         player, move.card>> >>
    \o [k \in 1..Len(others(seating, player)) |->
            <<"notify_move", others(seating, player)[k], move.card>>]
    \o (IF game_over = "Exit" THEN <<>> ELSE pickup_events(player, cards))
    \o << <<"get_winning_sequences_for_team", player, "">> >>
    \o (IF won THEN << <<"update_board", player, "">>, <<"game_over", player, game_over>> >>
        ELSE <<>>)

\* the calls of the turn from query_move on: the strategy's move, the Board
\* operation and its display, notify_move to the other players, the count of
\* the winning sequences, on a win update_board and game_over with the UI's
\* answer, and the draw unless play_game has returned
move_events(seating, player, move, won, game_over, cards) ==
    << <<"query_move", player, move.card>>,
       <<IF move.action = PLACE_CHIP THEN "put_chip" ELSE "remove_chip", player, move.card>>,
       <<IF move.action = PLACE_CHIP THEN "ui.play_chip" ELSE "ui.remove_chip",
         player, move.card>> >>
    \o [k \in 1..Len(others(seating, player)) |->
            <<"notify_move", others(seating, player)[k], move.card>>]
    \o << <<"get_winning_sequences_for_team", player, "">> >>
    \o (IF won THEN << <<"update_board", player, "">>, <<"game_over", player, game_over>> >>
        ELSE <<>>)
    \o (IF game_over = "Exit" THEN <<>> ELSE pickup_events(player, cards))

\* calls of a rejected move that go on to the UI
rejected_move_events_shown(player, move) ==
    << <<"query_move", player, move.card>>,
       <<IF move.action = PLACE_CHIP THEN "put_chip" ELSE "remove_chip", player, move.card>>,
       <<IF move.action = PLACE_CHIP THEN "ui.play_chip" ELSE "ui.remove_chip",
         player, move.card>> >>

\* the calls of the turn from query_move on when the Board raises
rejected_move_events(player, move) ==
    << <<"query_move", player, move.card>>,
       <<IF move.action = PLACE_CHIP THEN "put_chip" ELSE "remove_chip", player, move.card>> >>

\* query_move and the rest of the turn: the strategy returns a move of a card
\* of the hand; the card leaves the hand and the board is asked to apply the
\* move. If the board raises, the exception leaves play_game. Otherwise the
\* winning sequences are counted; on a win ui.game_over ends the game or
\* lets it go on; unless the game has ended the player draws a card
QueryMoveOf(strategy) ==
    /\ pc = "query_move"
    /\ \E player \in {Seat(turn)} :
       \E move \in RandomStrategy_query_move(strategy, hands[player], chips, Color(player)) :
       \E r \in {IF move.action = PLACE_CHIP
                 THEN put_chip(chips, move.card, move.pos, Color(player))
                 ELSE remove_chip(chips, move.card, move.pos, Color(player))} :
       IF r.exc # "None"
       THEN /\ pc' = r.exc
            /\ chips' = r.chips
            /\ hands' = [hands EXCEPT ![player] = remove_first(@, move.card)]
            /\ events' = events \o rejected_move_events(player, move)
            /\ UNCHANGED <<sequences, game_overs, deck, keep_playing, result>>
       ELSE
       \E seqs \in {[t \in 1..Len(teams) |->
                        get_winning_sequences_for_team(r.chips, TeamColors[t])]} :
       \E won \in {Len(seqs[TeamOf(player)]) >= sequences_to_win(teams) /\ ~keep_playing} :
       \E game_over \in IF won THEN {"Exit", "Continue"} ELSE {"None"} :
            /\ chips' = r.chips
            /\ sequences' = seqs
            /\ events' = events \o move_events(players, player, move, won, game_over, deck)
            /\ game_overs' = IF won THEN game_overs + 1 ELSE game_overs
            /\ IF game_over = "Exit"
               THEN /\ pc' = "returned"
                    /\ result' = Color(player)
                    /\ hands' = [hands EXCEPT ![player] = remove_first(@, move.card)]
                    /\ UNCHANGED <<deck, keep_playing>>
               ELSE /\ pc' = "cycle"
                    /\ keep_playing' = (keep_playing \/ won)
                    /\ hands' = [hands EXCEPT
                            ![player] = draw(remove_first(@, move.card), deck)]
                    /\ deck' = popped(deck)
                    /\ UNCHANGED result
    /\ UNCHANGED <<call, before, target, iterVars, teams, the_board, players, params,
                   turn, idx, offers, actors, script, ret>>

QueryMove == QueryMoveOf("random")

\* the matches the model follows: two teams of one, two teams of two, three
\* teams of one
GameSetups ==
    {SetupTeams(<<1, 1>>, "none"), SetupTeams(<<2, 2>>, "none"),
     SetupTeams(<<1, 1, 1>>, "none")}

InitGame == \E ts \in GameSetups : GameEntry(ts)

NextGame == StartGame \/ BeginTurn \/ DeadCards \/ QueryMove

SpecGame == InitGame /\ [][NextGame]_vars

----------------------------------------------------------------------------
(* play_game: whole matches *)

\* the most turns of a match the model follows
MaxMatchTurns == 110

\* shuffles that deal the first player the cards of the cells (0, 1) to
\* (0, 4), next to the corner (0, 0): with three teams, and with two teams,
\* where the cards of (0, 5) to (0, 8) follow
ThreeTeamTop ==
    <<"6D", "7D", "8D", "9D", "2S", "3S", "2C", "3C", "4C", "5C", "6C", "7C",
      "2H", "3H", "4H", "5H", "6H", "7H">>
TwoTeamTop ==
    <<"6D", "7D", "8D", "9D", "XD", "QD", "KD", "2C", "3C", "4C", "5C", "6C", "7C",
      "8C", "AD">>
MatchShuffles == {Stacked(ThreeTeamTop), Stacked(TwoTeamTop)}

\* two teams of one and three teams of one
MatchSetups == {SetupTeams(<<1, 1>>, "none"), SetupTeams(<<1, 1, 1>>, "none")}

InitMatch == \E ts \in MatchSetups : GameEntry(ts)

\* every strategy discards its dead cards, as BaseStrategy.query_dead_card
\* does, and plays the first move of RandomStrategy's list
NextMatch ==
    \/ StartGameFrom(MatchShuffles)
    \/ BeginTurnBefore(MaxMatchTurns)
    \/ DeadCardsAnswering({TRUE})
    \/ QueryMoveOf("first")

SpecMatch == InitMatch /\ [][NextMatch]_vars

----------------------------------------------------------------------------
(* The strategies that weigh the moves: WeightedBaseStrategy.query_move and *)
(* SimpleWeightingStrategy.move_weight. The code computes a weight in       *)
(* floating point. The model holds the exact value of the same expression   *)
(* as a whole number of 1/32000 and keeps the factor 9999 apart, so that no *)
(* product leaves the range of the integers. Two weights whose exact values *)
(* differ are at least 1/32000 apart, far more than the rounding of their   *)
(* few operations, so the floating point values are ordered as the exact    *)
(* ones. Two weights whose exact values are equal come out equal when they  *)
(* are computed from the same numbers; when they are computed from          *)
(* different numbers the rounding may order them either way, and the model  *)
(* takes every outcome of that: one of them may be favoured.                *)

\* unique_cards_by_action that discards every one-eyed Jack when the Jack
\* of hearts is held
unique_cards_by_action_no_one_eyed(cards) ==
    LET all == Range(cards)
        no_js == IF "JH" \in all THEN all \ ONE_EYEDS ELSE all
        no_jd == IF "JC" \in no_js THEN no_js \ {"JD"} ELSE no_js
    IN  [ret |-> no_jd, cards |-> cards]

\* unique_cards_by_action that discards from the list it is given
unique_cards_by_action_in_place(cards) ==
    LET all == Range(cards)
        no_js == IF "JH" \in all THEN all \ {"JS"} ELSE all
        no_jd == IF "JC" \in no_js THEN no_js \ {"JD"} ELSE no_js
    IN  [ret |-> no_jd, cards |-> SelectSeq(cards, LAMBDA card : card \in no_jd)]

\* unique_cards_by_action: the set of the cards, without JS if it holds JH
\* and without JD if it holds JC. "cards = set(cards)" makes a new object, so
\* the caller's list is what it was: ret is the set returned, cards the
\* caller's list after the call
unique_cards_by_action(cards) ==
    LET all == Range(cards)
        no_js == IF "JH" \in all THEN all \ {"JS"} ELSE all
        no_jd == IF "JC" \in no_js THEN no_js \ {"JD"} ELSE no_js
    IN  [ret |-> no_jd, cards |-> cards]

\* sequence_completion's "return None, None"
NoCompletion == [none |-> TRUE, completion |-> 0, one_eyeds_required |-> 0]

\* sequence_completion's loop from the k-th cell of the visiting order on
RECURSIVE sequence_completion_from(_, _, _, _, _, _, _)
sequence_completion_from(order, k, board, team, completion, one_eyeds_required, shared_chip_encountered) ==
    IF k > Len(order)
    THEN [none |-> FALSE, completion |-> completion,
          one_eyeds_required |-> one_eyeds_required]
    ELSE LET here == getpos(board, order[k])
         IN  IF here.card = CORN
             THEN sequence_completion_from(order, k + 1, board, team, completion + 1,
                                           one_eyeds_required, shared_chip_encountered)
             ELSE IF here.chip = NoChip
             THEN sequence_completion_from(order, k + 1, board, team, completion,
                                           one_eyeds_required, shared_chip_encountered)
             ELSE IF is_flipped(here.chip)
             THEN IF here.chip.team = team /\ ~shared_chip_encountered
                  THEN sequence_completion_from(order, k + 1, board, team,
                                                completion + 1, one_eyeds_required, TRUE)
                  ELSE NoCompletion
             ELSE IF here.chip.team = team
             THEN sequence_completion_from(order, k + 1, board, team, completion + 1,
                                           one_eyeds_required, shared_chip_encountered)
             ELSE sequence_completion_from(order, k + 1, board, team, completion,
                                           one_eyeds_required + 1,
                                           shared_chip_encountered)

\* sequence_completion that takes a flipped chip of the team for one met
\* before
sequence_completion_shared(order, board, team) ==
    sequence_completion_from(order, 1, board, team, 0, 0, TRUE)

\* sequence_completion(seq, board, team), with the order "for pos in seq"
\* visits the cells in
sequence_completion(order, board, team) ==
    sequence_completion_from(order, 1, board, team, 0, 0, FALSE)

\* the multipliers, in units of 1/20
DEFAULT_OFFENSE_MULTIPLIERS == <<20, 22, 40, 80, 200>>
DEFAULT_DEFENSE_MULTIPLIERS == <<2, 3, 10, 30, 100>>

\* _offense_move_weights: num_one_eyeds
num_one_eyeds(hand) ==
    Cardinality({j \in 1..Len(hand) : hand[j] \in ONE_EYEDS \/ hand[j] = "JJ"})

\* _offense_move_weights that takes a removal for a placement: the index is
\* the completion
offense_index_no_reduction(board, hand, team, move, seq) ==
    LET sc == sequence_completion(iter_set(seq), board, team)
    IN  IF sc.none THEN -1
        ELSE IF sc.one_eyeds_required > num_one_eyeds(hand) THEN -1
        ELSE sc.completion

\* _offense_move_weights: the index of offense_values that a sequence
\* raises, -1 if the loop goes on without raising any
offense_index(board, hand, team, move, seq) ==
    LET sc == sequence_completion(iter_set(seq), board, team)
    IN  IF sc.none THEN -1
        ELSE IF sc.one_eyeds_required > num_one_eyeds(hand) THEN -1
        ELSE IF move.action = REMOVE_CHIP
             THEN IF sc.one_eyeds_required <= sc.completion
                  THEN sc.completion - sc.one_eyeds_required
                  ELSE -1
        ELSE sc.completion

\* _offense_move_weights: offense_values; the list's index 0 is the
\* sequence's index 1
offense_move_weights(board, hand, team, move) ==
    LET seqs == iter_sequences_with(board, TRUE, "None", 0, <<move.pos>>)
        raised == [i \in 1..Len(seqs) |->
                        offense_index(board, hand, team, move, seqs[i])] \o <<>>
    IN  [c \in 1..5 |-> Cardinality({i \in 1..Len(raised) : raised[i] = c - 1})] \o <<>>

\* _defense_move_weights: what a sequence and another team add to
\* defense_values, in units of 1/16, and at which index; 0 if the loop goes on
defense_value(board, move, seq, other) ==
    LET sc == sequence_completion(iter_set(seq), board, other)
    IN  IF sc.none THEN [at |-> 0, dvalue |-> 0]
        ELSE IF sc.one_eyeds_required >= 2 THEN [at |-> 0, dvalue |-> 0]
        ELSE IF move.action = PLACE_CHIP
             THEN [at |-> sc.completion,
                   dvalue |-> IF sc.one_eyeds_required # 0 THEN 4 ELSE 16]
        ELSE IF getpos(board, move.pos).chip.team # other THEN [at |-> 0, dvalue |-> 0]
        ELSE [at |-> sc.completion,
              dvalue |-> IF sc.one_eyeds_required # 0 THEN 3 ELSE 12]

\* _defense_move_weights: defense_values in units of 1/16; the list's index 0
\* is the sequence's index 1; board_teams is Board.teams
defense_move_weights(board, board_teams, team, move) ==
    LET seqs == iter_sequences_with(board, TRUE, "None", 0, <<move.pos>>)
        others_teams == SelectSeq(board_teams, LAMBDA other : other # team)
        n == Len(others_teams)
        added == [k \in 1..(Len(seqs) * n) |->
                    defense_value(board, move, seqs[((k - 1) \div n) + 1],
                                  others_teams[((k - 1) % n) + 1])] \o <<>>
        times(c, dvalue) ==
            dvalue * Cardinality({k \in 1..Len(added) :
                                    added[k] = [at |-> c, dvalue |-> dvalue]})
    IN  [c \in 1..5 |-> times(c - 1, 16) + times(c - 1, 12) + times(c - 1, 4)
                        + times(c - 1, 3)] \o <<>>

\* move_weight that takes the Joker for a two-eyed Jack
move_weight_joker_as_two_eyed(board, board_teams, hand, team, stw, move) ==
    LET offense_weights == offense_move_weights(board, hand, team, move)
        defense_weights == defense_move_weights(board, board_teams, team, move)
        sum == 16 * (offense_weights[1] * DEFAULT_OFFENSE_MULTIPLIERS[1]
                     + offense_weights[2] * DEFAULT_OFFENSE_MULTIPLIERS[2]
                     + offense_weights[3] * DEFAULT_OFFENSE_MULTIPLIERS[3]
                     + offense_weights[4] * DEFAULT_OFFENSE_MULTIPLIERS[4]
                     + offense_weights[5] * DEFAULT_OFFENSE_MULTIPLIERS[5])
               + defense_weights[1] * DEFAULT_DEFENSE_MULTIPLIERS[1]
               + defense_weights[2] * DEFAULT_DEFENSE_MULTIPLIERS[2]
               + defense_weights[3] * DEFAULT_DEFENSE_MULTIPLIERS[3]
               + defense_weights[4] * DEFAULT_DEFENSE_MULTIPLIERS[4]
               + defense_weights[5] * DEFAULT_DEFENSE_MULTIPLIERS[5]
        joker == 10
        two_eyed == IF move.card \in TWO_EYEDS \/ move.card = "JJ" THEN 9 ELSE 10
        non_completion ==
            IF (move.card \in TWO_EYEDS \/ move.card = "JJ") /\ offense_weights[5] = 0
            THEN 5 ELSE 10
    IN  [weight |-> (sum * joker * two_eyed * non_completion) \div 10,
         winning |-> Len(get_winning_sequences_for_team(board, team))
                        + offense_weights[5] >= stw,
         offense |-> offense_weights,
         defense |-> defense_weights,
         factors |-> <<joker, two_eyed, non_completion>>]

\* move_weight: the weight in units of 1/32000 before the last factor,
\* whether the last factor 9999 applies ("always prefer winning"), and the
\* numbers the floating point value is computed from
move_weight(board, board_teams, hand, team, stw, move) ==
    LET offense_weights == offense_move_weights(board, hand, team, move)
        defense_weights == defense_move_weights(board, board_teams, team, move)
        sum == 16 * (offense_weights[1] * DEFAULT_OFFENSE_MULTIPLIERS[1]
                     + offense_weights[2] * DEFAULT_OFFENSE_MULTIPLIERS[2]
                     + offense_weights[3] * DEFAULT_OFFENSE_MULTIPLIERS[3]
                     + offense_weights[4] * DEFAULT_OFFENSE_MULTIPLIERS[4]
                     + offense_weights[5] * DEFAULT_OFFENSE_MULTIPLIERS[5])
               + defense_weights[1] * DEFAULT_DEFENSE_MULTIPLIERS[1]
               + defense_weights[2] * DEFAULT_DEFENSE_MULTIPLIERS[2]
               + defense_weights[3] * DEFAULT_DEFENSE_MULTIPLIERS[3]
               + defense_weights[4] * DEFAULT_DEFENSE_MULTIPLIERS[4]
               + defense_weights[5] * DEFAULT_DEFENSE_MULTIPLIERS[5]
        joker == IF move.card = "JJ" THEN 8 ELSE 10
        two_eyed == IF move.card \in TWO_EYEDS THEN 9 ELSE 10
        non_completion ==
            IF (move.card \in TWO_EYEDS \/ move.card = "JJ") /\ offense_weights[5] = 0
            THEN 5 ELSE 10
    IN  [weight |-> (sum * joker * two_eyed * non_completion) \div 10,
         winning |-> Len(get_winning_sequences_for_team(board, team))
                        + offense_weights[5] >= stw,
         offense |-> offense_weights,
         defense |-> defense_weights,
         factors |-> <<joker, two_eyed, non_completion>>]

\* no weight: the rounding favours none
NoWeight == [weight |-> -1, winning |-> FALSE, offense |-> <<>>, defense |-> <<>>,
             factors |-> <<>>]

\* a < b for the exact values of two weights, with the factor 9999
exact_less(a, b) ==
    IF a.winning = b.winning THEN a.weight < b.weight
    ELSE IF a.winning THEN b.weight > 0 /\ a.weight <= (b.weight - 1) \div 9999
    ELSE a.weight \div 9999 < b.weight

\* a < b for two weights as the code compares them: as their exact values
\* do, and, of two weights with equal exact values that are computed from
\* different numbers, the one that the rounding favours is the greater
weight_less(a, b, favoured) ==
    \/ exact_less(a, b)
    \/ ~exact_less(b, a) /\ a # b /\ b = favoured

\* key=lambda move: self.move_weight(move) on the moves of the hand: for
\* each card of the hand, its moves and their weights, each computed once
move_weights(board, board_teams, hand, team, stw) ==
    LET at == {j \in 1..Len(hand) : \A i \in 1..(j - 1) : hand[i] # hand[j]}
        cards == [k \in 1..Cardinality(at) |->
                    hand[CHOOSE j \in at : Cardinality({i \in at : i < j}) = k - 1]]
    IN  [k \in 1..Len(cards) |->
            LET moves == iter_moves(board, cards[k], team)
            IN  [card |-> cards[k],
                 moves |-> moves,
                 weights |-> [i \in 1..Len(moves) |->
                                move_weight(board, board_teams, hand, team, stw, moves[i])]
                             \o <<>>]]
        \o <<>>

\* the weights that no weight of the key exceeds in exact value
greatest_weights(key) ==
    LET all == UNION {{key[k].weights[i] : i \in 1..Len(key[k].weights)} :
                        k \in 1..Len(key)}
    IN  {w \in all : \A v \in all : ~exact_less(w, v)}

\* max(moves, key) over the moves of one card: the first move whose weight
\* no other exceeds; None when the card has no move
max_of_card(entry, favoured) ==
    LET greatest(i) == \A j \in 1..Len(entry.moves) :
                            ~weight_less(entry.weights[i], entry.weights[j], favoured)
    IN  IF entry.moves = <<>> THEN [none |-> TRUE, move |-> "None", weight |-> NoWeight]
        ELSE LET i == CHOOSE i \in 1..Len(entry.moves) :
                            greatest(i) /\ \A j \in 1..(i - 1) : ~greatest(j)
             IN  [none |-> FALSE, move |-> entry.moves[i], weight |-> entry.weights[i]]

\* max(moves, key) over the cards from the k-th on, the moves of each card
\* together: a later move replaces the best one when its weight is greater
RECURSIVE max_from(_, _, _, _, _)
max_from(order, k, best, key, favoured) ==
    IF k > Len(order) THEN best
    ELSE LET entry == key[CHOOSE e \in 1..Len(key) : key[e].card = order[k]]
             next == max_of_card(entry, favoured)
         IN  IF ~next.none
                /\ (best.none \/ weight_less(best.weight, next.weight, favoured))
             THEN max_from(order, k + 1, next, key, favoured)
             ELSE max_from(order, k + 1, best, key, favoured)

\* WeightedBaseStrategy.query_move: the cards of unique_cards_by_action(hand)
\* in the order the set yields them; max() of no move raises ValueError
WeightedBaseStrategy_query_move(order, key, favoured) ==
    LET best == max_from(order, 1, [none |-> TRUE, move |-> "None", weight |-> NoWeight],
                         key, favoured)
    IN  IF best.none THEN "ValueError" ELSE best.move

----------------------------------------------------------------------------
(* A caller of the weighing strategy: a match of two players in which a     *)
(* script fixes the moves that reach the board, and the player to move asks *)
(* SimpleWeightingStrategy for its move and reads the board.                *)

\* the most moves of a script the model follows
MaxPuts == 14

\* the scripts: the cells the players take, BLUE and GREEN in turn. In the
\* first BLUE fills row 0 from the corner on and leaves (0, 7) free, GREEN
\* fills column 0 from the corner on; in the second both play in row 1
RowScript ==
    << <<0, 1>>, <<1, 0>>, <<0, 2>>, <<2, 0>>, <<0, 3>>, <<3, 0>>, <<0, 4>>, <<4, 0>>,
       <<0, 5>>, <<5, 5>>, <<0, 6>>, <<6, 7>>, <<0, 8>>, <<8, 2>>, <<0, 7>>, <<8, 6>>,
       <<2, 2>>, <<3, 7>> >>
MixedScript ==
    << <<1, 1>>, <<1, 2>>, <<1, 3>>, <<1, 4>>, <<1, 5>>, <<1, 6>>, <<2, 3>>, <<1, 7>>,
       <<3, 3>>, <<2, 5>>, <<4, 3>>, <<2, 6>>, <<5, 3>>, <<3, 5>>, <<6, 3>>, <<4, 5>>,
       <<7, 3>>, <<5, 5>> >>
EvalScripts == {RowScript, MixedScript}

\* the shuffles of these matches: the hands of the first and of the second
\* player
PlainTop ==
    <<"KD", "2S", "3S", "4S", "5S", "6S", "7S", "JS", "JH", "2C", "3C", "4C", "5C", "6C">>
TiedTop ==
    <<"3S", "4S", "2S", "7S", "2S", "7S", "3S", "JC", "JD", "JJ", "JS", "JH", "8C", "9C">>
EvalShuffles == {Stacked(PlainTop), Stacked(TiedTop)}

\* Board.teams
board_teams == [t \in 1..Len(teams) |-> TeamColors[t]]

\* the orders in which "for card in unique_cards_by_action(hand)" may yield
\* the cards of the set: any card first, the others as they stand in the hand
set_orders(cards, hand) ==
    LET others_after(first) ==
            LET at == {j \in 1..Len(hand) :
                            /\ hand[j] \in cards \ {first}
                            /\ \A i \in 1..(j - 1) : hand[i] # hand[j]}
            IN  [k \in 1..Cardinality(at) |->
                    hand[CHOOSE j \in at : Cardinality({i \in at : i < j}) = k - 1]]
    IN  {<<first>> \o others_after(first) : first \in cards}

\* the script's next move: board.put_chip for the player to move, with the
\* card of the cell
ScriptedPut ==
    /\ pc = "cycle"
    /\ turn < MaxPuts
    /\ turn < Len(script)
    /\ \E player \in {Seat(turn + 1)} :
       \E pos \in {script[turn + 1]} :
       \E r \in {put_chip(chips, getpos(chips, pos).card, pos, Color(player))} :
            /\ chips' = r.chips
            /\ before' = chips
            /\ call' = [op |-> "put_chip", card |-> getpos(chips, pos).card, pos |-> pos,
                        team |-> Color(player), exc |-> r.exc]
            /\ turn' = turn + 1
            /\ ret' = [op |-> "None"]
    /\ UNCHANGED <<target, iterVars, teams, pc, the_board, players, params, hands, deck,
                   idx, offers, actors, sequences, keep_playing, result, events,
                   game_overs, script>>

\* the player to move calls strategy.query_move(): the strategy reads the
\* hand through unique_cards_by_action and the board through iter_moves,
\* iter_sequences, sequence_completion and get_winning_sequences_for_team
AIQueryMove ==
    /\ pc = "cycle"
    /\ ret.op = "None"
    /\ \E player \in {Seat(turn + 1)} :
       \E unique \in {unique_cards_by_action(hands[player])} :
       \E key \in {move_weights(chips, board_teams, hands[player], Color(player),
                                params[player].sequences_to_win)} :
       \E order \in set_orders(unique.ret, hands[player]) :
       \E favoured \in greatest_weights(key) \cup {NoWeight} :
            /\ ret' = [op |-> "query_move", player |-> player, order |-> order,
                       value |-> WeightedBaseStrategy_query_move(order, key, favoured)]
            /\ hands' = [hands EXCEPT ![player] = unique.cards]
    /\ UNCHANGED <<chips, call, before, target, iterVars, teams, pc, the_board, players,
                   params, deck, turn, idx, offers, actors, sequences, keep_playing,
                   result, events, game_overs, script>>

\* the reading methods of the Board and sequence_completion, called for the
\* player to move: none of them assigns to the board
ReadOps == {"iter_moves", "iter_sequences", "get_winning_sequences_for_team",
            "sequence_completion"}

BoardRead(op) ==
    /\ pc = "cycle"
    /\ ret.op = "None"
    /\ call.op = "put_chip"
    /\ \E player \in {Seat(turn + 1)} :
        ret' = [op |-> op, player |-> player, order |-> <<>>,
                value |->
                    IF op = "iter_moves"
                    THEN iter_moves(chips, hands[player][1], Color(player))
                    ELSE IF op = "iter_sequences"
                    THEN iter_sequences_with(chips, TRUE, Color(player),
                                             num_one_eyeds(hands[player]), <<call.pos>>)
                    ELSE IF op = "get_winning_sequences_for_team"
                    THEN get_winning_sequences_for_team(chips, Color(player))
                    ELSE sequence_completion(
                            iter_set(iter_sequences_with(chips, FALSE, "None", 0,
                                                         <<call.pos>>)[1]),
                            chips, Color(player))]
    /\ UNCHANGED <<chips, call, before, target, iterVars, teams, pc, the_board, players,
                   params, hands, deck, turn, idx, offers, actors, sequences,
                   keep_playing, result, events, game_overs, script>>

\* two players, a shuffle and a script
InitEval ==
    \E s \in EvalScripts : Entry(SetupTeams(<<1, 1>>, "none"), s)

NextEval ==
    \/ StartGameFrom(EvalShuffles)
    \/ ScriptedPut
    \/ AIQueryMove
    \/ \E op \in ReadOps : BoardRead(op)

SpecEval == InitEval /\ [][NextEval]_vars

----------------------------------------------------------------------------
(* Properties *)

\* a catalog sequence is complete: every non-corner cell of it holds a chip,
\* and all these chips have one owner
CompleteSeq(board, seq) ==
    \E team \in Teams :
        \A pos \in seq : IsCorner(pos) \/ (pos \in DOMAIN board /\ board[pos].team = team)

InCompleteSeq(board, pos) ==
    \E i \in 1..Len(iter_all_sequences) :
        pos \in iter_all_sequences[i] /\ CompleteSeq(board, iter_all_sequences[i])

WasFlipped(pos) == pos \in DOMAIN before /\ is_flipped(before[pos])

\* C1: a chip that was locked when a put_chip or remove_chip was called is
\* still there after the call, with the same owner and still locked, and a
\* call on its cell raised IllegalMove, whatever the card and the team.
C1_LockedChipStays ==
    \A pos \in DOMAIN before :
        is_flipped(before[pos]) =>
            /\ pos \in DOMAIN chips
            /\ chips[pos] = before[pos]
            /\ (call.pos = pos => call.exc = "IllegalMove")

\* another team has called remove_chip with a one-eyed Jack on a locked chip
C1_Witness ==
    /\ call.op = "remove_chip"
    /\ call.card \in ONE_EYEDS
    /\ WasFlipped(call.pos)
    /\ before[call.pos].team # call.team

\* C2: in every reachable state a chip is locked iff its cell is a member of
\* at least one complete sequence.
C2_LockedIffInCompleteSeq ==
    \A pos \in DOMAIN chips : is_flipped(chips[pos]) <=> InCompleteSeq(chips, pos)

\* the board holds locked chips, unlocked chips of both teams and an empty cell
C2_Witness ==
    /\ \E pos \in DOMAIN chips : is_flipped(chips[pos])
    /\ \A team \in Teams : \E pos \in DOMAIN chips :
            chips[pos].team = team /\ ~is_flipped(chips[pos])
    /\ PlayCells \ DOMAIN chips # {}

\* the condition under which put_chip is said to raise IllegalMove
PutRejected(board, card, pos) ==
    \/ IsCorner(pos)
    \/ card \in ONE_EYEDS
    \/ pos \in DOMAIN board
    \/ (card \notin TWO_EYEDS /\ card # "JJ" /\ card # getpos(board, pos).card)

\* C3: put_chip raises IllegalMove exactly under PutRejected; a rejected call
\* leaves the board as it was; an accepted call adds one chip of team at pos,
\* changes the occupancy and owner of no other cell, and leaves locked exactly
\* the chips that were locked or now lie on a complete sequence.
C3_PutChipContract ==
    call.op = "put_chip" =>
        /\ call.exc = "IllegalMove" <=> PutRejected(before, call.card, call.pos)
        /\ call.exc \in {"IllegalMove", "None"}
        /\ call.exc = "IllegalMove" => chips = before
        /\ call.exc = "None" =>
            /\ DOMAIN chips = DOMAIN before \cup {call.pos}
            /\ call.pos \notin DOMAIN before
            /\ chips[call.pos].team = call.team
            /\ \A pos \in DOMAIN before : chips[pos].team = before[pos].team
            /\ \A pos \in DOMAIN chips :
                    is_flipped(chips[pos]) <=> (WasFlipped(pos) \/ InCompleteSeq(chips, pos))

\* an accepted put_chip has completed a sequence
C3_Witness ==
    /\ call.op = "put_chip"
    /\ call.exc = "None"
    /\ is_flipped(chips[call.pos])

\* the condition under which remove_chip is said to raise IllegalMove
RemoveRejected(board, card, pos, team) ==
    \/ pos \notin DOMAIN board
    \/ is_flipped(board[pos])
    \/ board[pos].team = team
    \/ (card # "JJ" /\ card \notin ONE_EYEDS)

\* C4: remove_chip raises IllegalMove exactly under RemoveRejected; a rejected
\* call leaves the board as it was; an accepted call empties the cell at pos
\* and changes no other cell.
C4_RemoveChipContract ==
    call.op = "remove_chip" =>
        /\ call.exc = "IllegalMove" <=> RemoveRejected(before, call.card, call.pos, call.team)
        /\ call.exc \in {"IllegalMove", "None"}
        /\ call.exc = "IllegalMove" => chips = before
        /\ call.exc = "None" =>
            /\ DOMAIN chips = DOMAIN before \ {call.pos}
            /\ call.pos \in DOMAIN before
            /\ \A pos \in DOMAIN chips : chips[pos] = before[pos]

\* an accepted remove_chip has emptied a cell and left another chip in place
C4_Witness ==
    /\ call.op = "remove_chip"
    /\ call.exc = "None"
    /\ call.pos \notin DOMAIN chips
    /\ DOMAIN chips # {}

\* the cards the properties of iter_moves range over: every Jack, the
\* Joker and three ranked cards
CardSample == ONE_EYEDS \cup TWO_EYEDS \cup {"JJ", "6D", "AC", "2S"}

\* the indices of the moves of one action kind
MovesOf(moves, action) == {i \in 1..Len(moves) : moves[i].action = action}

\* the cells holding an unlocked chip of a team other than team
RemoveTargets(board, team) ==
    {pos \in DOMAIN board : board[pos].team # team /\ ~is_flipped(board[pos])}

\* the empty non-corner cells the card can be placed on
PlaceTargets(board, card) ==
    {pos \in Pos :
        /\ ~IsCorner(pos)
        /\ pos \notin DOMAIN board
        /\ (card \in TWO_EYEDS \/ card = "JJ" \/ positions[pos[1] + 1][pos[2] + 1] = card)}

\* C5: iter_moves yields REMOVE moves only for a one-eyed Jack or the Joker,
\* and then exactly one for every cell holding an unlocked chip of another
\* team and no other; for a one-eyed Jack it yields no PLACE move.
C5_RemoveMoves ==
    \A card \in CardSample : \A team \in Teams :
        \A moves \in {iter_moves(chips, card, team)} :
            \A rem \in {MovesOf(moves, REMOVE_CHIP)} :
                /\ (card \notin ONE_EYEDS /\ card # "JJ") => rem = {}
                /\ (card \in ONE_EYEDS \/ card = "JJ") =>
                    /\ {moves[i].pos : i \in rem} = RemoveTargets(chips, team)
                    /\ Cardinality(rem) = Cardinality(RemoveTargets(chips, team))
                /\ \A i \in rem : moves[i].card = card
                /\ card \in ONE_EYEDS => MovesOf(moves, PLACE_CHIP) = {}

\* a team faces an unlocked chip and a locked chip of the other team and holds
\* a chip of its own
C5_Witness ==
    \E team \in Teams :
        /\ RemoveTargets(chips, team) # {}
        /\ \E pos \in DOMAIN chips : chips[pos].team # team /\ is_flipped(chips[pos])
        /\ \E pos \in DOMAIN chips : chips[pos].team = team

\* C6: for a card that is not a one-eyed Jack, iter_moves yields exactly one
\* PLACE move for every empty non-corner cell whose fixed card is the card (every
\* empty non-corner cell for a two-eyed Jack or the Joker) and no other PLACE
\* move; on the empty board a two-eyed Jack has 96 PLACE moves and no other move.
C6_PlaceMoves ==
    \A card \in CardSample \ ONE_EYEDS : \A team \in Teams :
        \A moves \in {iter_moves(chips, card, team)} :
            \A plc \in {MovesOf(moves, PLACE_CHIP)} :
                /\ {moves[i].pos : i \in plc} = PlaceTargets(chips, card)
                /\ Cardinality(plc) = Cardinality(PlaceTargets(chips, card))
                /\ \A i \in plc : moves[i].card = card
                /\ (chips = EmptyBoard /\ card \in TWO_EYEDS) =>
                        (Len(moves) = 96 /\ Cardinality(plc) = 96)

\* one of the two cells of the 6D is occupied, and the 6D has one PLACE move
C6_Witness ==
    /\ <<0, 1>> \in DOMAIN chips
    /\ Len(iter_moves(chips, "6D", "BLUE")) = 1

\* C7: for every card but the Joker all the moves of iter_moves have one
\* action kind: REMOVE for a one-eyed Jack, PLACE for every other card.
C7_OneActionKind ==
    \A card \in CardSample \ {"JJ"} : \A team \in Teams :
        \A moves \in {iter_moves(chips, card, team)} :
            \A i \in 1..Len(moves) :
                moves[i].action = IF card \in ONE_EYEDS THEN REMOVE_CHIP ELSE PLACE_CHIP

\* the Joker has moves of both kinds
C7_Witness ==
    \E team \in Teams :
        \A moves \in {iter_moves(chips, "JJ", team)} :
            MovesOf(moves, REMOVE_CHIP) # {} /\ MovesOf(moves, PLACE_CHIP) # {}

\* C8: for every team, any two distinct sequences returned by
\* get_winning_sequences_for_team share at most 1 cell.
C8_WinsShareAtMostOneCell ==
    \A team \in Teams :
        \A w \in {get_winning_sequences_for_team(chips, team)} :
            \A i \in 1..Len(w) : \A j \in 1..Len(w) :
                w[i] # w[j] => Cardinality(w[i] \cap w[j]) <= 1

\* a team has two winning sequences
C8_Witness ==
    \E team \in Teams : Len(get_winning_sequences_for_team(chips, team)) >= 2

\* every non-corner cell of the sequence holds a locked chip of the team
FullyLocked(board, team, seq) ==
    \A pos \in seq :
        IsCorner(pos) \/ (pos \in DOMAIN board /\ board[pos].team = team /\ is_flipped(board[pos]))

\* the place of a sequence in the catalog
CatalogIndex(seq) ==
    CHOOSE i \in 1..Len(iter_all_sequences) : iter_all_sequences[i] = seq

\* C9: every sequence returned by get_winning_sequences_for_team is a catalog
\* sequence whose non-corner cells all hold locked chips of the team, and every
\* such catalog sequence that is not returned shares more than 1 cell with a
\* returned sequence that precedes it in the catalog.
C9_WinsSoundAndMaximal ==
    \A team \in Teams :
        \A w \in {get_winning_sequences_for_team(chips, team)} :
            /\ \A k \in 1..Len(w) :
                    /\ \E i \in 1..Len(iter_all_sequences) : iter_all_sequences[i] = w[k]
                    /\ FullyLocked(chips, team, w[k])
            /\ \A i \in 1..Len(iter_all_sequences) :
                    (/\ FullyLocked(chips, team, iter_all_sequences[i])
                     /\ \A k \in 1..Len(w) : w[k] # iter_all_sequences[i])
                    => \E k \in 1..Len(w) :
                            /\ CatalogIndex(w[k]) < i
                            /\ Cardinality(w[k] \cap iter_all_sequences[i]) > 1

\* a fully locked sequence of a team is not among its winning sequences
C9_Witness ==
    \E team \in Teams :
        \A w \in {get_winning_sequences_for_team(chips, team)} :
            \E i \in 1..Len(iter_all_sequences) :
                /\ FullyLocked(chips, team, iter_all_sequences[i])
                /\ \A k \in 1..Len(w) : w[k] # iter_all_sequences[i]

\* the fifth chip has been placed on the horizontal target
RowFilled == target \in RowTargets /\ DOMAIN chips = target

\* C10 as stated: when a team has placed chips on all five cells of a
\* horizontal sequence of non-corner cells on an otherwise empty board, all five
\* chips are locked and get_winning_sequences_for_team returns exactly that
\* sequence.
C10_Original ==
    RowFilled =>
        /\ \A pos \in target : is_flipped(chips[pos])
        /\ get_winning_sequences_for_team(chips, call.team) = <<target>>

\* the sequence returned for a filled horizontal target: the target, or the
\* corner sequence of columns 0..4 when the target is columns 1..5 of row 0 or 9
RowWinner(seq) ==
    IF seq = hrsequence(0, 1) THEN hrsequence(0, 0)
    ELSE IF seq = hrsequence(9, 1) THEN hrsequence(9, 0)
    ELSE seq

\* C10 as amended: all five chips are locked and exactly one sequence is
\* returned, which is the target unless the target is columns 1..5 of row 0 or
\* row 9, where it is the corner sequence of columns 0..4 of that row.
C10_RowLockedAndOneWin ==
    RowFilled =>
        /\ \A pos \in target : is_flipped(chips[pos])
        /\ get_winning_sequences_for_team(chips, call.team) = <<RowWinner(target)>>

\* the fifth chip has been placed on a horizontal target, by the team that
\* placed the other four
C10_Witness ==
    /\ RowFilled
    /\ call.op = "put_chip"
    /\ \A pos \in target : chips[pos].team = call.team

\* the last call was a put_chip that the board accepted
PutAccepted == call.op = "put_chip" /\ call.exc = "None"

\* C11: after an accepted put_chip, remove_chip on the placed chip raises
\* IllegalMove if the placement locked it; if the placement completed no
\* sequence, remove_chip with a one-eyed Jack by another team succeeds, leaves
\* the cell empty and yields exactly the board before the placement.
C11_LockOrUndo ==
    PutAccepted =>
        \A card \in CardInputs : \A team \in Teams :
            LET r == remove_chip(chips, card, call.pos, team)
            IN  /\ is_flipped(chips[call.pos]) =>
                        r.exc = "IllegalMove" /\ r.chips = chips
                /\ (~is_flipped(chips[call.pos]) /\ card \in ONE_EYEDS /\ team # call.team) =>
                        /\ r.exc = "None"
                        /\ call.pos \notin DOMAIN r.chips
                        /\ r.chips = before

\* a chip has been placed next to chips of both teams and completed nothing
C11_Witness ==
    /\ PutAccepted
    /\ ~is_flipped(chips[call.pos])
    /\ \A team \in Teams : \E pos \in DOMAIN before : before[pos].team = team

\* C12: in every reachable state update_sequences locks no further chip and
\* leaves the board as it is, and the assertion of Chip.flip has failed on no
\* chip.
C12_UpdateIdempotent ==
    /\ update_sequences(chips) = chips
    /\ \A pos \in DOMAIN chips : chips[pos] # AssertionFailed

\* chips have been locked, and later moves have left six or more chips
C12_Witness ==
    /\ \E pos \in DOMAIN chips : is_flipped(chips[pos])
    /\ \E pos \in DOMAIN chips : ~is_flipped(chips[pos])
    /\ Cardinality(DOMAIN chips) >= 6

\* C13: no corner holds a chip; between the board before a call and the board
\* after it a cell's chip changes only from empty to a chip of the caller at
\* the cell put_chip addressed, or from an unlocked chip to empty at the cell
\* remove_chip addressed; the assertion of remove_chip never fails.
C13_NoCornerNoOverwrite ==
    /\ \A pos \in DOMAIN chips : ~IsCorner(pos)
    /\ call.exc # "AssertionError"
    /\ \A pos \in Pos :
            getpos(chips, pos).chip.team # getpos(before, pos).chip.team =>
                \/ /\ pos \notin DOMAIN before
                   /\ call.op = "put_chip" /\ call.pos = pos
                   /\ chips[pos].team = call.team
                \/ /\ pos \in DOMAIN before /\ ~is_flipped(before[pos])
                   /\ pos \notin DOMAIN chips
                   /\ call.op = "remove_chip" /\ call.pos = pos

\* a two-eyed Jack has been played on the corner <<0, 0>> of a board with chips
C13_Witness ==
    /\ call.op = "put_chip"
    /\ call.card \in TWO_EYEDS
    /\ IsCorner(call.pos)
    /\ chips # EmptyBoard

\* the four orientations: right, down, down-right, up-right
Directions == << <<0, 1>>, <<1, 0>>, <<1, 1>>, <<-1, 1>> >>

\* the five cells from start in direction d
Run(start, d) == {<<start[1] + k * d[1], start[2] + k * d[2]>> : k \in 0..4}

\* every run of five consecutive cells that lies on the board, with its
\* orientation and its start cell
RunKeys == {key \in (1..4) \X Pos : Run(key[2], Directions[key[1]]) \subseteq Pos}
AllRuns == {Run(key[2], Directions[key[1]]) : key \in RunKeys}

\* orientation, start row and start column of each catalog entry
CatalogKeys ==
    [i \in 1..Len(iter_all_sequences) |->
        IF iter_all_sequences[i] \in AllRuns
        THEN CHOOSE key \in RunKeys : Run(key[2], Directions[key[1]]) = iter_all_sequences[i]
        ELSE <<0, <<0, 0>> >>]

\* orientation first, then start row, then start column
KeyLess(a, b) ==
    \/ a[1] < b[1]
    \/ a[1] = b[1] /\ a[2][1] < b[2][1]
    \/ a[1] = b[1] /\ a[2][1] = b[2][1] /\ a[2][2] < b[2][2]

CatalogSet == {iter_all_sequences[i] : i \in 1..Len(iter_all_sequences)}

\* C14: every sequence iter_all_sequences yields is a run of five consecutive
\* in-bounds cells in one of the four orientations, differs from every
\* sequence yielded before it and follows them in the order orientation, start
\* row, start column; when the generator is exhausted it has yielded every
\* such run, 192 in all.
C14_CatalogIsAllRuns ==
    /\ it.all > 0 =>
            /\ iter_all_sequences[it.all] \in AllRuns
            /\ \A i \in 1..(it.all - 1) :
                    /\ iter_all_sequences[i] # iter_all_sequences[it.all]
                    /\ KeyLess(CatalogKeys[i], CatalogKeys[it.all])
    /\ it.all = Len(iter_all_sequences) =>
            /\ CatalogSet = AllRuns
            /\ Len(iter_all_sequences) = Cardinality(AllRuns)
            /\ Len(iter_all_sequences) = 192

\* the generator iter_all_sequences is exhausted
C14_Witness == it.all = Len(iter_all_sequences) /\ it.all > 0

CornerCells == {pos \in Pos : IsCorner(pos)}
CornerSet == {iter_corner_sequences[i] : i \in 1..Len(iter_corner_sequences)}

\* horizontal, vertical or diagonal
Orientation(seq) ==
    IF \A p \in seq : \A q \in seq : p[1] = q[1] THEN "horizontal"
    ELSE IF \A p \in seq : \A q \in seq : p[2] = q[2] THEN "vertical"
    ELSE "diagonal"

\* C15: every sequence iter_corner_sequences yields is a catalog sequence with
\* exactly one corner cell and differs from those yielded before it; when the
\* generator is exhausted it has yielded 12 sequences, for each corner one
\* horizontal, one vertical and one diagonal, and every catalog sequence with
\* a corner cell is among them.
C15_CornerSequences ==
    /\ it.corner > 0 =>
            /\ iter_corner_sequences[it.corner] \in CatalogSet
            /\ Cardinality(iter_corner_sequences[it.corner] \cap CornerCells) = 1
            /\ \A i \in 1..(it.corner - 1) :
                    iter_corner_sequences[i] # iter_corner_sequences[it.corner]
    /\ it.corner = Len(iter_corner_sequences) =>
            /\ Len(iter_corner_sequences) = 12
            /\ \A corner \in CornerCells :
                    \A o \in {"horizontal", "vertical", "diagonal"} :
                        Cardinality({seq \in CornerSet :
                            corner \in seq /\ Orientation(seq) = o}) = 1
            /\ \A seq \in CatalogSet : seq \cap CornerCells # {} => seq \in CornerSet

\* the generator iter_corner_sequences is exhausted
C15_Witness == it.corner = Len(iter_corner_sequences) /\ it.corner > 0

\* the 52 ranked cards, and the four Jacks among them
RankedSet == {ranked_cards[i] : i \in 1..Len(ranked_cards)}
Jacks == ONE_EYEDS \cup TWO_EYEDS

\* the cells of the layout that show a card
LayoutCells == [card \in RankedSet |-> {pos \in Pos : positions[pos[1] + 1][pos[2] + 1] = card}]

GridCorners == {<<0, 0>>, <<0, 9>>, <<9, 0>>, <<9, 9>>}

\* the moves iter_moves yields for the card are PLACE moves on exactly two cells
TwoPlaceMoves(card, team) ==
    LET moves == iter_moves(chips, card, team)
    IN  /\ Len(moves) = 2
        /\ \A i \in 1..Len(moves) : moves[i].action = PLACE_CHIP
        /\ {moves[i].pos : i \in 1..Len(moves)} = LayoutCells[card]

\* C16 as stated: the corner markers are at exactly the four grid corners,
\* every one of the 52 ranked cards is the card of exactly two cells, and on
\* the empty board iter_moves yields exactly two PLACE moves for each of them.
C16_Original ==
    /\ CornerCells = GridCorners
    /\ \A card \in RankedSet : Cardinality(LayoutCells[card]) = 2
    /\ chips = EmptyBoard =>
            \A card \in RankedSet : \A team \in Teams : TwoPlaceMoves(card, team)

\* C16 as amended: the corner markers are at exactly the four grid corners,
\* every one of the 48 ranked cards that is not a Jack is the card of exactly
\* two cells, no cell shows a Jack, and on the empty board iter_moves yields
\* exactly two PLACE moves, on those two cells, for every ranked card that is
\* not a Jack.
C16_TwoCellsPerNonJack ==
    /\ CornerCells = GridCorners
    /\ Cardinality(RankedSet) = 52
    /\ Cardinality(RankedSet \ Jacks) = 48
    /\ \A card \in RankedSet \ Jacks : Cardinality(LayoutCells[card]) = 2
    /\ \A card \in Jacks : LayoutCells[card] = {}
    /\ chips = EmptyBoard =>
            \A card \in RankedSet \ Jacks : \A team \in Teams : TwoPlaceMoves(card, team)

\* the empty board, on which a ranked card has its two PLACE moves and a
\* one-eyed Jack has no move
C16_Witness ==
    /\ chips = EmptyBoard
    /\ TwoPlaceMoves("6D", "BLUE")
    /\ iter_moves(chips, "JS", "BLUE") = <<>>

\* the setups play_game is said to reject
BadSetup(ts) ==
    \/ Len(ts) \notin {2, 3}
    \/ \E t \in 1..Len(ts) : \E u \in 1..Len(ts) : Len(ts[t]) # Len(ts[u])
    \/ \E t \in 1..Len(ts) : Len(ts[t]) = 0
    \/ Len(ts) = 2 /\ \E t \in 1..Len(ts) : Len(ts[t]) > 5
    \/ Len(ts) = 3 /\ \E t \in 1..Len(ts) : Len(ts[t]) > 4
    \/ \E t \in 1..Len(ts) : \E u \in 1..Len(ts) :
            \E k \in 1..Len(ts[t]) : \E l \in 1..Len(ts[u]) :
                <<t, k>> # <<u, l>> /\ ts[t][k] = ts[u][l]

\* the numbers of players the hand-size table is said to cover
TableSizes == {2, 3, 4, 6, 8, 9, 10, 12}

\* C17: play_game raises GameSetupError exactly for the setups of BadSetup and
\* raises nothing else; when it has raised, no Board exists, no strategy has
\* received game parameters, no deck exists and every hand is as it was; when
\* it has not, the number of players has an entry in the hand-size table and
\* every seated player has received parameters and that many cards.
C17_SetupErrors ==
    pc # "entry" =>
        /\ pc = "GameSetupError" <=> BadSetup(teams)
        /\ pc # "KeyError"
        /\ pc = "GameSetupError" =>
                /\ the_board = "None"
                /\ params = <<>>
                /\ deck = <<>>
                /\ \A player \in DOMAIN hands : hands[player] = <<>>
        /\ (pc = "cycle" /\ turn = 0) =>
                /\ Len(players) \in TableSizes
                /\ Len(players) \in DOMAIN cards_in_hand_table
                /\ the_board = "Board"
                /\ DOMAIN params = Range(players)
                /\ \A player \in DOMAIN hands :
                        Len(hands[player]) = cards_in_hand_table[Len(players)]

\* play_game has raised for two teams of equal, allowed size whose first
\* players are one and the same Player
C17_Witness ==
    /\ pc = "GameSetupError"
    /\ Len(teams) = 2
    /\ Len(teams[1]) = Len(teams[2])
    /\ Len(teams[1]) \in 1..5
    /\ teams[1][1] = teams[2][1]

\* play_game has dealt to two disjoint teams of three players each
DealtThreeThree ==
    /\ pc = "cycle"
    /\ turn = 0
    /\ teams = SetupTeams(<<3, 3>>, "none")

\* C18 as stated: in a match of two teams of three, every player is dealt 6
\* cards and the deck holds 69 cards after the deal.
C18_Original ==
    DealtThreeThree =>
        /\ \A player \in DOMAIN hands : Len(hands[player]) = 6
        /\ Len(deck) = 69

\* C18 as amended: in a match of two teams of three, every player is dealt 5
\* cards and the deck holds 104 + 1 - (6 * 5) = 75 cards after the deal.
C18_FiveCardsEach ==
    DealtThreeThree =>
        /\ Cardinality(DOMAIN hands) = 6
        /\ \A player \in DOMAIN hands : Len(hands[player]) = 5
        /\ Len(deck) = 75
        /\ Len(ALL_CARDS) = 105

\* the deal to two teams of three is over, and every hand holds cards
C18_Witness ==
    /\ DealtThreeThree
    /\ \A player \in DOMAIN hands : hands[player] # <<>>

\* the teams of the players that took turns m..n
TeamsActing(m, n) == {TeamOf(actors[k]) : k \in m..n}

\* C19: the k-th turn is taken by the player at place ((k-1) div len(teams))
\* mod team size of team ((k-1) mod len(teams)); consecutive turns belong to
\* different teams, every window of len(teams) consecutive turns holds every
\* team, and every window of len(players) consecutive turns holds every player.
C19_TurnOrder ==
    /\ Len(actors) = turn
    /\ \A k \in 1..Len(actors) :
            actors[k] = teams[((k - 1) % Len(teams)) + 1]
                             [(((k - 1) \div Len(teams)) % Len(teams[1])) + 1]
    /\ \A k \in 1..(Len(actors) - 1) : TeamOf(actors[k]) # TeamOf(actors[k + 1])
    /\ \A k \in 1..(Len(actors) - Len(teams) + 1) :
            TeamsActing(k, k + Len(teams) - 1) = 1..Len(teams)
    /\ \A k \in 1..(Len(actors) - Len(players) + 1) :
            {actors[j] : j \in k..(k + Len(players) - 1)} = Range(players)

\* in a match of two teams of two, the first player has begun a second turn
C19_Witness ==
    /\ Len(teams) = 2
    /\ Len(teams[1]) = 2
    /\ Len(actors) > Len(players)
    /\ actors[Len(actors)] = actors[1]

\* how often a card is in a hand, and how often the strategy has declined it
\* this turn
CountIn(hand, card) == Cardinality({j \in 1..Len(hand) : hand[j] = card})
Declined(card) ==
    Cardinality({j \in 1..Len(offers) : offers[j].card = card /\ ~offers[j].answer})

\* C20: when query_move is about to be called, every card of the acting
\* player's hand for which iter_moves yields nothing has been offered to
\* query_dead_card this turn (and declined, or it would not be in the hand).
C20_DeadCardsOffered ==
    pc = "query_move" =>
        \A card \in Range(hands[Seat(turn)]) :
            iter_moves(chips, card, Color(Seat(turn))) = <<>> =>
                CountIn(hands[Seat(turn)], card) <= Declined(card)

\* the acting player holds a card without a legal move that was never offered:
\* the card that followed a discarded dead card in the hand
SkippedDeadCard ==
    /\ pc = "query_move"
    /\ \E j \in 1..Len(offers) : offers[j].answer
    /\ \E card \in Range(hands[Seat(turn)]) \ ONE_EYEDS :
            /\ iter_moves(chips, card, Color(Seat(turn))) = <<>>
            /\ CountIn(hands[Seat(turn)], card) > Declined(card)

----------------------------------------------------------------------------
(* Properties of whole matches *)

\* the number of winning sequences that ends a match: 2 with two teams, 1
\* with three
Threshold == IF Len(teams) = 2 THEN 2 ELSE 1

\* the calls of the current turn with the given name
EventsNamed(log, name) == SelectSeq(log, LAMBDA e : e[1] = name)
HasEvent(name) == EventsNamed(events, name) # <<>>

\* the step of query_move and of the rest of the turn
MoveStep == pc = "query_move" /\ pc' # "query_move"

\* C21: a move that leaves the acting team with at least Threshold winning
\* sequences while keep_playing is off makes play_game call ui.game_over for
\* the acting team, and on the answer "Exit" play_game returns that team
\* with neither a draw nor another turn; a move that leaves the acting team
\* below Threshold calls no game_over, no other step calls it, nothing
\* follows a return, and a match calls game_over at most once.
C21_GameOverOnWin ==
    [][/\ pc # "returned"
       /\ game_overs' <= 1
       /\ ~MoveStep => game_overs' = game_overs
       /\ MoveStep =>
            LET player == Seat(turn)
                winset == Len(get_winning_sequences_for_team(chips', Color(player)))
                calls == EventsNamed(events', "game_over")
            IN  /\ winset < Threshold => game_overs' = game_overs /\ calls = <<>>
                /\ (winset >= Threshold /\ ~keep_playing) =>
                        /\ game_overs' = game_overs + 1
                        /\ Len(calls) = 1
                        /\ calls[1][2] = player
                        /\ events'[Len(events')] = calls[1] <=> calls[1][3] = "Exit"
                        /\ calls[1][3] = "Exit" =>
                                /\ pc' = "returned"
                                /\ result' = Color(player)
                                /\ deck' = deck
                                /\ turn' = turn
                                /\ Len(hands'[player]) = Len(hands[player]) - 1
      ]_vars

\* a match of two teams has returned the acting team on the answer "Exit"
\* to the one game_over, with two winning sequences
C21_Witness ==
    /\ pc = "returned"
    /\ Len(teams) = 2
    /\ game_overs = 1
    /\ HasEvent("game_over")
    /\ result = Color(actors[Len(actors)])
    /\ Len(sequences[TeamOf(actors[Len(actors)])]) = 2

\* the top of the loop stands at a player whose hand is empty
EmptyHandTurn == pc = "cycle" /\ hands[Seat(turn + 1)] = <<>>

\* C22: a turn that starts at a player with an empty hand makes play_game
\* return a team that has, in the sequences counted after the last move, at
\* least as many winning sequences as every other team; play_game calls
\* player_has_empty_hand in no other step, and the deck is empty then.
C22_EmptyHandExit ==
    [][/\ EmptyHandTurn =>
            /\ pc' = "returned"
            /\ EventsNamed(events', "player_has_empty_hand") # <<>>
            /\ \E t \in DOMAIN sequences :
                    /\ result' = TeamColors[t]
                    /\ \A u \in DOMAIN sequences : Len(sequences[u]) <= Len(sequences[t])
            /\ sequences' = sequences
       /\ EventsNamed(events', "player_has_empty_hand") # <<>> =>
            /\ EmptyHandTurn
            /\ deck = <<>>
            /\ deck' = <<>>
      ]_vars

\* a match that went on after its game_over has ended at a player with an
\* empty hand, and the team returned is not the team that had won
C22_Witness ==
    /\ pc = "returned"
    /\ HasEvent("player_has_empty_hand")
    /\ deck = <<>>
    /\ keep_playing
    /\ result = "GREEN"

\* the names of the calls of the current turn, in order
EventNames(log) == [k \in 1..Len(log) |-> log[k][1]]

\* the calls a loop over the dead cards may make
DeadCardCalls ==
    {"query_dead_card", "ui.notify_dead_card_discard", "notify_dead_card_discard",
     "deck.pop", "notify_pickup"}

\* the position of the only call of the given name in the log, 0 if there is
\* none or more than one
Only(log, name) ==
    LET at == {k \in 1..Len(log) : log[k][1] = name}
    IN  IF Cardinality(at) = 1 THEN CHOOSE k \in at : TRUE ELSE 0

\* the turn's move has been applied: query_move and what follows it are in
\* the log
TurnDone == pc \in {"cycle", "returned"} /\ HasEvent("query_move")

\* C23: the calls of a completed turn are, in this order: notify_turn,
\* update_board, the calls of the loop over the dead cards, query_move, one
\* put_chip or one remove_chip, the UI's play_chip or remove_chip,
\* notify_move to every player but the actor in seating order, once each,
\* the count of the winning sequences with update_board and game_over on a
\* win, and last the draw of the actor (none on "Exit" or from an empty deck).
C23_TurnEventOrder ==
    TurnDone =>
        LET names == EventNames(events)
            actor == actors[Len(actors)]
            q == Only(events, "query_move")
            w == Only(events, "get_winning_sequences_for_team")
            notified == SubSeq(events, q + 3, w - 1)
            rest == SubSeq(names, w + 1, Len(names))
        IN  /\ q > 2 /\ w > q
            /\ names[1] = "notify_turn" /\ events[1][2] = actor
            /\ names[2] = "update_board"
            /\ \A k \in 3..(q - 1) : names[k] \in DeadCardCalls
            /\ events[q][2] = actor
            /\ names[q + 1] \in {"put_chip", "remove_chip"}
            /\ Cardinality({k \in 1..Len(names) :
                                names[k] \in {"put_chip", "remove_chip"}}) = 1
            /\ names[q + 2] = (IF names[q + 1] = "put_chip"
                               THEN "ui.play_chip" ELSE "ui.remove_chip")
            /\ \A k \in 1..Len(notified) : notified[k][1] = "notify_move"
            /\ [k \in 1..Len(notified) |-> notified[k][2]] = others(players, actor)
            /\ \A k \in 1..Len(notified) : notified[k][2] # actor
            /\ Len(notified) = Len(players) - 1
            /\ rest \in {<<>>,
                         <<"deck.pop", "notify_pickup">>,
                         <<"update_board", "game_over">>,
                         <<"update_board", "game_over", "deck.pop", "notify_pickup">>}
            /\ HasEvent("game_over") <=> Len(rest) > 0 /\ rest[1] = "update_board"
            /\ (pc = "cycle" /\ deck # <<>>) => rest[Len(rest)] = "notify_pickup"

\* a turn of a match of three has called game_over, was told to go on, and
\* the actor has drawn a card after it
C23_Witness ==
    /\ TurnDone
    /\ Len(players) = 3
    /\ EventNames(events)[Len(events)] = "notify_pickup"
    /\ HasEvent("game_over")
    /\ HasEvent("put_chip")

----------------------------------------------------------------------------
(* Properties of the filters of iter_sequences *)

\* the sequences iter_all_sequences has yielded so far
Yielded == SubSeq(iter_all_sequences, 1, it.all)

\* the cells of a sequence moved by one step of a direction, forth or back
Shifted(seq, d, sign) == {<<pos[1] + sign * d[1], pos[2] + sign * d[2]>> : pos \in seq}

\* C28: with exclude_corner_extensions=True iter_sequences yields, in the
\* order of the catalog, the sequences that share exactly 4 cells with no
\* corner sequence: of the sequences yielded so far it keeps the 12 corner
\* sequences and drops only corner sequences shifted by one cell along their
\* line, 12 of the whole catalog; with no filter it yields the whole catalog.
C28_CornerExtensionFilter ==
    LET kept == iter_sequences_with(chips, TRUE, "None", 0, <<>>)
        seen == SelectSeq(Yielded, LAMBDA seq : seq \in Range(kept))
        dropped == Range(Yielded) \ Range(kept)
    IN  /\ seen = SubSeq(kept, 1, Len(seen))
        /\ \A c \in CornerSet \cap Range(Yielded) : c \in Range(seen)
        /\ \A seq \in dropped :
                \E c \in CornerSet : \E k \in 1..4 : \E sign \in {-1, 1} :
                    /\ seq = Shifted(c, Directions[k], sign)
                    /\ Cardinality(seq \cap c) = 4
        /\ \A seq \in Range(seen) : \A c \in CornerSet : Cardinality(seq \cap c) # 4
        /\ it.all = Len(iter_all_sequences) =>
                /\ Cardinality(dropped) = 12
                /\ Len(kept) = Len(iter_all_sequences) - 12
                /\ seen = kept
        /\ SubSeq(iter_sequences_with(chips, FALSE, "None", 0, <<>>), 1, it.all) = Yielded
        /\ Len(iter_sequences_with(chips, FALSE, "None", 0, <<>>)) = Len(iter_all_sequences)

\* the whole catalog has been yielded and the filter has dropped sequences
C28_Witness ==
    /\ it.all = Len(iter_all_sequences)
    /\ Range(Yielded) \ Range(iter_sequences_with(chips, TRUE, "None", 0, <<>>)) # {}

----------------------------------------------------------------------------
(* iter_sequences' filter for a team and a number of one-eyed Jacks *)

\* the cells of seq that hold a chip of another team than team, flipped or not
foreign_chips(board, seq, team, flipped) ==
    {pos \in seq : /\ getpos(board, pos).chip # NoChip
                   /\ getpos(board, pos).chip.team # team
                   /\ is_flipped(getpos(board, pos).chip) = flipped}

\* what the filter is said to keep
Kept(board, seq, team, budget) ==
    /\ foreign_chips(board, seq, team, TRUE) = {}
    /\ Cardinality(foreign_chips(board, seq, team, FALSE)) <= budget

\* the sequences through the cell of the last chip
SequencesThroughLast ==
    {iter_all_sequences[i] : i \in {i \in 1..Len(iter_all_sequences) :
                                        call.pos \in iter_all_sequences[i]}}

\* C29: iter_sequences with exclude_impossible_for_team = T and b one-eyed
\* Jacks keeps a sequence exactly when none of its cells holds a flipped chip
\* of another team and at most b of its cells hold an unflipped chip of
\* another team, in whatever order the cells of the sequence are visited; so
\* the sequences iter_sequences returned to the player are those kept ones
\* that pass its other filters
C29_ImpossibleFilter ==
    ret.op = "iter_sequences" =>
        /\ \A seq \in SequencesThroughLast :
           \A order \in Orders(seq) :
           \A team \in {board_teams[k] : k \in 1..Len(board_teams)} :
           \A budget \in 0..Cardinality(seq) :
                possible(chips, order, 1, team, budget) = Kept(chips, seq, team, budget)
        /\ ret.value =
                SelectSeq(iter_all_sequences,
                          LAMBDA seq :
                            /\ call.pos \in seq
                            /\ non_corner_extension(seq)
                            /\ Kept(chips, seq, Color(ret.player),
                                    num_one_eyeds(hands[ret.player])))

\* iter_sequences returned sequences, each with an unflipped chip of another
\* team that a one-eyed Jack of the player can remove, and left out one with
\* a flipped chip of another team; without a one-eyed Jack none would be kept
C29_Witness ==
    /\ ret.op = "iter_sequences"
    /\ ret.value # <<>>
    /\ \A k \in 1..Len(ret.value) :
            foreign_chips(chips, ret.value[k], Color(ret.player), FALSE) # {}
    /\ \E seq \in SequencesThroughLast :
            foreign_chips(chips, seq, Color(ret.player), TRUE) # {}
    /\ \A seq \in SequencesThroughLast :
            ~possible(chips, iter_set(seq), 1, Color(ret.player), 0)

----------------------------------------------------------------------------
(* sequence_completion *)

\* the cells of seq that hold a chip of team, flipped or not
own_chips(board, seq, team, flipped) ==
    {pos \in seq : /\ getpos(board, pos).chip # NoChip
                   /\ getpos(board, pos).chip.team = team
                   /\ is_flipped(getpos(board, pos).chip) = flipped}

\* what sequence_completion is said to return
Completion(board, seq, team) ==
    IF \/ foreign_chips(board, seq, team, TRUE) # {}
       \/ Cardinality(own_chips(board, seq, team, TRUE)) >= 2
    THEN NoCompletion
    ELSE [none |-> FALSE,
          completion |-> Cardinality({pos \in seq : IsCorner(pos)})
                            + Cardinality(own_chips(board, seq, team, TRUE))
                            + Cardinality(own_chips(board, seq, team, FALSE)),
          one_eyeds_required |-> Cardinality(foreign_chips(board, seq, team, FALSE))]

\* C30: sequence_completion(seq, board, team) returns (None, None) exactly
\* when seq holds a flipped chip of another team or at least two flipped chips
\* of team; otherwise completion is the number of corner cells plus the
\* number of cells with a chip of team, and one_eyeds_required the number of
\* cells with an unflipped chip of another team, in whatever order the cells
\* are visited
C30_SequenceCompletion ==
    ret.op = "sequence_completion" =>
        /\ \A seq \in SequencesThroughLast :
           \A order \in Orders(seq) :
           \A team \in {board_teams[k] : k \in 1..Len(board_teams)} :
                sequence_completion(order, chips, team) = Completion(chips, seq, team)
        /\ \E seq \in SequencesThroughLast :
                ret.value = Completion(chips, seq, Color(ret.player))

\* sequence_completion was called on a board where a sequence through the
\* last chip has two flipped chips of one team and is impossible for both
\* teams, another has one flipped chip of a team and is possible for it, and
\* another needs a one-eyed Jack
C30_Witness ==
    /\ ret.op = "sequence_completion"
    /\ \E seq \in SequencesThroughLast :
       \E team \in {board_teams[k] : k \in 1..Len(board_teams)} :
            /\ Cardinality(own_chips(chips, seq, team, TRUE)) >= 2
            /\ \A t \in {board_teams[k] : k \in 1..Len(board_teams)} :
                    sequence_completion(iter_set(seq), chips, t).none
    /\ \E seq \in SequencesThroughLast :
       \E team \in {board_teams[k] : k \in 1..Len(board_teams)} :
            /\ Cardinality(own_chips(chips, seq, team, TRUE)) = 1
            /\ ~sequence_completion(iter_set(seq), chips, team).none
            /\ sequence_completion(iter_set(seq), chips, team).completion >= 1
    /\ \E seq \in SequencesThroughLast :
       \E team \in {board_teams[k] : k \in 1..Len(board_teams)} :
            /\ ~sequence_completion(iter_set(seq), chips, team).none
            /\ sequence_completion(iter_set(seq), chips, team).one_eyeds_required >= 1

----------------------------------------------------------------------------
(* unique_cards_by_action *)

\* what the moves of a set of cards do: the kind of action and the cell
Effects(board, cards, team) ==
    UNION {{<<move.action, move.pos>> : move \in Range(iter_moves(board, card, team))} :
                card \in cards}

\* the hand and the hands with one card less
SubHands(hand) ==
    {hand} \cup {SubSeq(hand, 1, j - 1) \o SubSeq(hand, j + 1, Len(hand)) :
                    j \in 1..Len(hand)}

\* C27: unique_cards_by_action(hand) returns cards of the hand, at most one
\* one-eyed Jack and at most one two-eyed Jack among them, and the moves of
\* the returned cards place and remove chips on the same cells as the moves
\* of the whole hand, on every board
C27_UniqueCardsSameEffects ==
    ret.op = "query_move" =>
        /\ \A k \in 1..Len(ret.order) :
                ret.order[k] \in unique_cards_by_action(hands[ret.player]).ret
        /\ \A hand \in SubHands(hands[ret.player]) :
           \A unique \in {unique_cards_by_action(hand).ret} :
                /\ unique \subseteq Range(hand)
                /\ Cardinality(unique \cap ONE_EYEDS) <= 1
                /\ Cardinality(unique \cap TWO_EYEDS) <= 1
                /\ Effects(chips, unique, Color(ret.player))
                        = Effects(chips, Range(hand), Color(ret.player))

\* query_move went through the cards of a hand with both one-eyed Jacks and
\* both two-eyed Jacks, fewer cards than the hand holds, on a board where
\* the hand can both place and remove a chip
C27_Witness ==
    /\ ret.op = "query_move"
    /\ ONE_EYEDS \cup TWO_EYEDS \subseteq Range(hands[ret.player])
    /\ Len(ret.order) < Cardinality(Range(hands[ret.player]))
    /\ \E e \in Effects(chips, Range(ret.order), Color(ret.player)) : e[1] = REMOVE_CHIP
    /\ \E e \in Effects(chips, Range(ret.order), Color(ret.player)) : e[1] = PLACE_CHIP

----------------------------------------------------------------------------
(* The reading operations *)

\* a step in which a reading operation or the evaluator's query_move returns
ReadStep == ret.op = "None" /\ ret'.op \in ReadOps \cup {"query_move"}

\* C24: iter_moves, iter_sequences, get_winning_sequences_for_team,
\* sequence_completion and the evaluator's query_move with its move_weight
\* leave the chip, its team and its flipped flag of every cell as they were,
\* and the hand of the player as it was
C24_ReadsChangeNothing ==
    [][ReadStep => /\ \A pos \in Pos : getpos(chips', pos) = getpos(chips, pos)
                   /\ hands' = hands]_vars

\* query_move returned a move for a hand from which unique_cards_by_action
\* discards a Jack, on a board with chips of both teams, flipped and not
C24_Witness ==
    /\ ret.op = "query_move"
    /\ Range(ret.order) # Range(hands[ret.player])
    /\ \A team \in {board_teams[k] : k \in 1..Len(board_teams)} :
       \A flipped \in BOOLEAN :
            \E pos \in Pos : /\ getpos(chips, pos).chip # NoChip
                               /\ getpos(chips, pos).chip.team = team
                               /\ is_flipped(getpos(chips, pos).chip) = flipped

----------------------------------------------------------------------------
(* The evaluator's selection *)

\* the weights of the moves of the player whose query_move returned
KeyOfQuery ==
    move_weights(chips, board_teams, hands[ret.player], Color(ret.player),
                 params[ret.player].sequences_to_win)

\* the weight the key holds for a move
WeightIn(key, move) ==
    LET entry == key[CHOOSE e \in 1..Len(key) : key[e].card = move.card]
    IN  entry.weights[CHOOSE i \in 1..Len(entry.moves) : entry.moves[i] = move]

\* C25: query_move returns a legal move of a card of the hand whose weight
\* none of the other candidates exceeds, the first such move in the order of
\* enumeration, and the move is determined by the hand and the board: every
\* order in which the cards of the hand can be enumerated selects the same
\* move, whatever the rounding of equal weights
C25_SelectedMoveDetermined ==
    ret.op = "query_move" =>
        \A key \in {KeyOfQuery} :
            /\ ret.value.card \in Range(hands[ret.player])
            /\ ret.value \in Range(iter_moves(chips, ret.value.card, Color(ret.player)))
            /\ \A w \in greatest_weights(key) : ~exact_less(WeightIn(key, ret.value), w)
            /\ \A favoured \in greatest_weights(key) \cup {NoWeight} :
               \A order \in set_orders(Range(ret.order), hands[ret.player]) :
                    WeightedBaseStrategy_query_move(order, key, favoured)
                        = WeightedBaseStrategy_query_move(ret.order, key, favoured)

\* the board after a move of the team
BoardAfter(board, move, team) ==
    IF move.action = PLACE_CHIP
    THEN put_chip(board, move.card, move.pos, team).chips
    ELSE remove_chip(board, move.card, move.pos, team).chips

\* the candidate moves of a key that bring the team to sequences_to_win
\* winning sequences
WinningMoves(key, board, team, stw) ==
    UNION {{move \in Range(key[k].moves) :
                Len(get_winning_sequences_for_team(BoardAfter(board, move, team), team))
                    >= stw} : k \in 1..Len(key)}

\* C26: when some candidate move would bring the team of the player to
\* sequences_to_win winning sequences, query_move selects such a move: every
\* such move has the factor 9999 and a weight above that of every candidate
\* that does not win
C26_WinningMoveSelected ==
    ret.op = "query_move" =>
        \A key \in {KeyOfQuery} :
        \A winning \in {WinningMoves(key, chips, Color(ret.player),
                                     params[ret.player].sequences_to_win)} :
            winning # {} =>
                /\ ret.value \in winning
                /\ \A move \in winning : WeightIn(key, move).winning
                /\ \A move \in winning :
                   \A k \in 1..Len(key) :
                   \A other \in Range(key[k].moves) \ winning :
                        exact_less(WeightIn(key, other), WeightIn(key, move))

----------------------------------------------------------------------------
(* Legality: iter_moves against put_chip and remove_chip *)

\* the positions of the calls: the cells played on, the corners and the
\* cells of the ranked card, one of them never played on
LegalityCells ==
    PlayCells \cup {pos \in Pos : IsCorner(pos) \/ getpos(EmptyBoard, pos).card = "6D"}

\* C32: on every board, for every card, team and position, iter_moves(card,
\* team) yields the placement of the card on the position exactly when
\* put_chip(card, pos, team) raises nothing, and the removal exactly when
\* remove_chip(card, pos, team) raises nothing; so no move that iter_moves
\* yields is rejected on the board it was yielded for
C32_OneLegality ==
    \A card \in CardInputs :
    \A team \in Teams :
    \A moves \in {Range(iter_moves(chips, card, team))} :
    \A pos \in LegalityCells :
        /\ (Move(card, PLACE_CHIP, pos) \in moves)
                = (put_chip(chips, card, pos, team).exc = "None")
        /\ (Move(card, REMOVE_CHIP, pos) \in moves)
                = (remove_chip(chips, card, pos, team).exc = "None")

\* a board with flipped chips and an unflipped chip of each team, where the
\* Joker of each team has placements and removals and both calls reject it
\* on other positions
C32_Witness ==
    /\ \E pos \in LegalityCells : /\ getpos(chips, pos).chip # NoChip
                                   /\ is_flipped(getpos(chips, pos).chip)
    /\ \A team \in Teams :
            /\ \E pos \in LegalityCells : /\ getpos(chips, pos).chip # NoChip
                                           /\ getpos(chips, pos).chip.team = team
                                           /\ ~is_flipped(getpos(chips, pos).chip)
            /\ \E pos \in LegalityCells : Move("JJ", PLACE_CHIP, pos) \in Range(iter_moves(chips, "JJ", team))
            /\ \E pos \in LegalityCells : Move("JJ", REMOVE_CHIP, pos) \in Range(iter_moves(chips, "JJ", team))
            /\ \E pos \in LegalityCells : put_chip(chips, "JJ", pos, team).exc = "IllegalMove"
            /\ \E pos \in LegalityCells : remove_chip(chips, "JJ", pos, team).exc = "IllegalMove"

----------------------------------------------------------------------------
(* What a move changes for the other teams *)

\* the winning sequences of every team of the match on a board
WinsOf(board) ==
    [t \in 1..Len(teams) |-> get_winning_sequences_for_team(board, TeamColors[t])]

\* the move of the step was put_chip: the board gained a chip
PutStep == MoveStep /\ DOMAIN chips' # DOMAIN chips /\ DOMAIN chips \subseteq DOMAIN chips'

\* the move of the step was remove_chip: the board lost a chip
RemoveStep == MoveStep /\ DOMAIN chips' # DOMAIN chips /\ DOMAIN chips' \subseteq DOMAIN chips

\* C33: a put_chip of team A that raises nothing flips only chips of A and
\* leaves the winning sequences of every other team as they were; a
\* remove_chip that raises nothing changes no flipped flag and the winning
\* sequences of no team
C33_MoveKeepsOtherTeams ==
    [][/\ MoveStep => PutStep \/ RemoveStep
       /\ PutStep =>
            /\ \A pos \in DOMAIN chips :
                    is_flipped(chips'[pos]) # is_flipped(chips[pos])
                        => (is_flipped(chips'[pos]) /\ chips[pos].team = Color(Seat(turn)))
            /\ \A pos \in DOMAIN chips : chips'[pos].team = chips[pos].team
            /\ \A t \in 1..Len(teams) :
                    TeamColors[t] # Color(Seat(turn)) => WinsOf(chips')[t] = WinsOf(chips)[t]
       /\ RemoveStep =>
            /\ \A pos \in DOMAIN chips' : chips'[pos] = chips[pos]
            /\ WinsOf(chips') = WinsOf(chips)]_vars

\* a player has put the chip that completes a sequence of its team while
\* another team has a winning sequence
C33_Witness ==
    /\ HasEvent("put_chip")
    /\ pc = "cycle"
    /\ \E player \in {actors[Len(actors)]} :
            /\ \E k \in 1..Len(sequences[TeamOf(player)]) :
               \E pos \in sequences[TeamOf(player)][k] :
                    \E e \in Range(EventsNamed(events, "put_chip")) :
                        getpos(chips, pos).card = e[3]
            /\ \E t \in 1..Len(teams) : t # TeamOf(player) /\ sequences[t] # <<>>

----------------------------------------------------------------------------
(* Calls along one line: callers place and remove chips on the cells of row *)
(* 0 between the corners <<0, 0>> and <<0, 9>>, where six sequences of the  *)
(* catalog lie, each sharing cells with its neighbours. The state of this   *)
(* specification is the board alone.                                        *)

\* number of cells of row 0 the callers of SpecLine address, from <<0, 1>> on
NumLineCells == 8

LineCells == {<<0, c>> : c \in 1..NumLineCells}

\* board.put_chip(card, pos, team), its exception caught
LinePut(card, pos, team) ==
    /\ chips' = put_chip(chips, card, pos, team).chips
    /\ UNCHANGED <<call, before, target, iterVars, gameVars>>

\* board.remove_chip(card, pos, team), its exception caught
LineRemove(card, pos, team) ==
    /\ chips' = remove_chip(chips, card, pos, team).chips
    /\ UNCHANGED <<call, before, target, iterVars, gameVars>>

NextLine ==
    \E card \in PlayInputs : \E team \in Teams : \E pos \in LineCells :
        \/ LinePut(card, pos, team)
        \/ LineRemove(card, pos, team)

SpecLine == Init /\ [][NextLine]_vars

----------------------------------------------------------------------------
(* The number of winning sequences *)

\* C34: along the calls of put_chip and remove_chip, the number of sequences
\* that get_winning_sequences_for_team returns for a team never decreases
C34_WinsNeverShrink ==
    [][chips' # chips =>
            \A team \in Teams :
                Len(get_winning_sequences_for_team(chips', team))
                    >= Len(get_winning_sequences_for_team(chips, team))]_vars

\* a team has a winning sequence on the line and a chip of the other team
\* lies on the line, which a call can remove
C34_Witness ==
    \E team \in Teams :
        /\ Len(get_winning_sequences_for_team(chips, team)) = 1
        /\ \E pos \in LineCells :
                /\ getpos(chips, pos).chip # NoChip
                /\ getpos(chips, pos).chip.team # team

\* the catalog sequences whose non-corner cells all hold flipped chips of the
\* team
FlippedSequences(board, team) ==
    {iter_all_sequences[i] : i \in {i \in 1..Len(iter_all_sequences) :
                                        all_flipped_for(board, team, iter_all_sequences[i])}}

\* the sets of such sequences that pairwise share at most one cell
Compatible(board, team) ==
    {set \in SUBSET FlippedSequences(board, team) :
        \A v \in set : \A w \in set : v = w \/ Cardinality(v \cap w) <= 1}

\* C35: on every board the number of sequences that
\* get_winning_sequences_for_team returns for a team is the greatest size of
\* a set of catalog sequences, each filled with flipped chips of the team,
\* that pairwise share at most one cell
C35_GreedyIsGreatest ==
    \A team \in Teams :
        /\ Range(get_winning_sequences_for_team(chips, team)) \in Compatible(chips, team)
        /\ \A set \in Compatible(chips, team) :
                Cardinality(set) <= Len(get_winning_sequences_for_team(chips, team))

\* a team has filled the line: six sequences are filled with its flipped
\* chips, two are returned, the first and one that shares a cell with it
C35_Witness ==
    \E team \in Teams :
        /\ Cardinality(FlippedSequences(chips, team)) = 6
        /\ Len(get_winning_sequences_for_team(chips, team)) = 2
        /\ Cardinality(get_winning_sequences_for_team(chips, team)[1]
                        \cap get_winning_sequences_for_team(chips, team)[2]) = 1

----------------------------------------------------------------------------
(* The indexes of offense_values and defense_values *)

\* the cells of the moves that are weighed: the line and a cell next to it
BucketCells == LineCells \cup {<<1, 1>>}

\* the card of these moves: the Joker, which places a chip on any free cell
\* and removes any chip that may be removed
BucketCard == "JJ"

\* the hand the card is played from: with two more cards that remove
BucketHand == <<BucketCard, "JS", "JH">>

\* the sequences that _offense_move_weights and _defense_move_weights visit
\* for a move at pos
SequencesThrough(board, pos) ==
    Range(iter_sequences_with(board, TRUE, "None", 0, <<pos>>))

\* the indexes that the sequences through the cell of a move raise are in
\* range, and those of a removal are the completion less the one-eyed Jacks
\* required, none when that is negative, and never 4
BucketsOf(board, team, move, seqs) ==
    \A seq \in seqs :
        /\ \E sc \in {sequence_completion(iter_set(seq), board, team)} :
           \E i \in {offense_index(board, BucketHand, team, move, seq)} :
                /\ i \in -1..4
                /\ move.action = REMOVE_CHIP =>
                        /\ i # 4
                        /\ i # -1 => i = sc.completion - sc.one_eyeds_required
                        /\ ~sc.none /\ sc.one_eyeds_required > sc.completion => i = -1
        /\ \A other \in Teams \ {team} :
                defense_value(board, move, seq, other).at \in 0..4

\* C36: for every move that iter_moves yields, every sequence through its
\* cell raises offense_values at an index in 0..4 or at none, and
\* defense_values at an index in 0..4; for a removal the index of
\* offense_values is the completion less the one-eyed Jacks required, no
\* index when that is negative, and never 4
C36_BucketsInRange ==
    \A team \in Teams :
    \E moves \in {Range(iter_moves(chips, BucketCard, team))} :
    \A pos \in BucketCells :
        (\E move \in moves : move.pos = pos) =>
            \E seqs \in {SequencesThrough(chips, pos)} :
                \A move \in moves : move.pos = pos => BucketsOf(chips, team, move, seqs)

\* a removal whose cell lies in a sequence that lacks only this chip (index
\* 3) and in a sequence that takes more removals than the team has cells of,
\* and the chip's team has four of a sequence through the cell (index 4 of
\* defense_values)
C36_Witness ==
    \E team \in Teams : \E pos \in LineCells :
    \E move \in {[card |-> "JS", action |-> REMOVE_CHIP, pos |-> pos]} :
        /\ move \in Range(iter_moves(chips, "JS", team))
        /\ \E seq \in SequencesThrough(chips, pos) :
                offense_index(chips, <<"JS">>, team, move, seq) = 3
        /\ \E seq \in SequencesThrough(chips, pos) :
                LET sc == sequence_completion(iter_set(seq), chips, team)
                IN  ~sc.none /\ sc.one_eyeds_required > sc.completion
        /\ \E seq \in SequencesThrough(chips, pos) : \E other \in Teams \ {team} :
                defense_value(chips, move, seq, other).at = 4

----------------------------------------------------------------------------
(* The cards that place a chip on one cell *)

\* a hand that holds the three kinds of card that place a chip on the cell,
\* and a card that removes
PlacingHand(pos) == <<getpos(EmptyBoard, pos).card, "JC", "JJ", "JS">>

\* sequences_to_win: of a game of three teams and of a game of two
WinTargets == {1, 2}

\* the cells the script has next for the player to move
NextCells == {script[k] : k \in {turn + 1, turn + 3} \cap DOMAIN script}

\* the weights of the placements on the cell by the card of the cell, by a
\* two-eyed Jack and by the Joker, for the team and the hand
PlaceWeights(team, pos, stw) ==
    [card \in {getpos(EmptyBoard, pos).card, "JC", "JJ"} |->
        move_weight(chips, board_teams, PlacingHand(pos), team, stw,
                    Move(card, PLACE_CHIP, pos))]

\* the order of the weights of the three placements on one cell
CardOrder(standard, two_eyed, joker) ==
    /\ two_eyed.offense = standard.offense /\ joker.offense = standard.offense
    /\ two_eyed.defense = standard.defense /\ joker.defense = standard.defense
    /\ two_eyed.winning = standard.winning /\ joker.winning = standard.winning
    /\ standard.factors = <<10, 10, 10>>
    /\ two_eyed.factors = <<10, 9, IF standard.offense[5] = 0 THEN 5 ELSE 10>>
    /\ joker.factors = <<8, 10, IF standard.offense[5] = 0 THEN 5 ELSE 10>>
    /\ ~exact_less(standard, two_eyed) /\ ~exact_less(two_eyed, joker)
    /\ standard.weight > 0 => exact_less(two_eyed, standard) /\ exact_less(joker, two_eyed)

\* C31: when a player is to be asked for a move, on each of the free cells
\* the script has next for the player the placement by the card of the cell
\* weighs at least as much as the placement by a two-eyed Jack, and that at
\* least as much as the placement by the Joker, each strictly more when the
\* weighted sum is positive: the factors are 1 for the card of the cell, 0.9
\* for the two-eyed Jack and 0.8 for the Joker, times 0.5 for the two when
\* no sequence is completed, the factor 9999 applies to the three or to
\* none, and offense_values and defense_values are the same for the three
C31_CardOrder ==
    (pc = "cycle" /\ ret.op = "None") =>
        \A pos \in NextCells : \A stw \in WinTargets :
            getpos(chips, pos).chip = NoChip =>
                \E w \in {PlaceWeights(Color(Seat(turn + 1)), pos, stw)} :
                    CardOrder(w[getpos(EmptyBoard, pos).card], w["JC"], w["JJ"])

\* the player to be asked has a free cell where a placement completes a
\* sequence and wins, and a free cell where it completes none and weighs more
\* than nothing
C31_Witness ==
    /\ pc = "cycle" /\ ret.op = "None"
    /\ \E pos \in NextCells : \E w \in {PlaceWeights(Color(Seat(turn + 1)), pos, 1)} :
            /\ getpos(chips, pos).chip = NoChip
            /\ w["JJ"].winning
            /\ w["JJ"].factors = <<8, 10, 10>>
    /\ \E pos \in NextCells : \E w \in {PlaceWeights(Color(Seat(turn + 1)), pos, 2)} :
            /\ getpos(chips, pos).chip = NoChip
            /\ ~w["JJ"].winning
            /\ w["JJ"].factors = <<8, 10, 5>>
            /\ w["JJ"].weight > 0

----------------------------------------------------------------------------
(* The cards of a match *)

\* the cards of the deck and of the hands
CardsHeld(in_hands, in_deck) ==
    LET RECURSIVE held(_)
        held(ps) == IF ps = {} THEN 0
                    ELSE LET p == CHOOSE p \in ps : TRUE
                         IN  Len(in_hands[p]) + held(ps \ {p})
    IN  Len(in_deck) + held(DOMAIN in_hands)

\* the cards that the calls of a log have taken from a hand for good: those
\* played and those discarded as dead
CardsGone(log) ==
    Len(EventsNamed(log, "query_move")) + Len(EventsNamed(log, "ui.notify_dead_card_discard"))

\* every hand holds cards_in_hand cards
HandsFull(in_hands) ==
    \A p \in DOMAIN in_hands : Len(in_hands[p]) = cards_in_hand_table[Len(players')]

\* C37: the deal leaves every player cards_in_hand cards and the deck the
\* other cards of the 105; every step of a turn takes from the deck and the
\* hands together as many cards as it plays or discards, so that the deck,
\* the hands and the cards played or discarded are 105 cards at every turn
\* boundary; and while the deck holds a card every hand holds cards_in_hand
\* cards at the top of a turn
C37_CardsConserved ==
    [][/\ pc = "entry" /\ pc' = "cycle" =>
            /\ HandsFull(hands')
            /\ Len(deck') = 105 - Len(players') * cards_in_hand_table[Len(players')]
            /\ CardsHeld(hands', deck') = 105
       /\ pc # "entry" =>
            /\ CardsHeld(hands', deck') + CardsGone(events')
                    = CardsHeld(hands, deck) + (IF pc = "cycle" THEN 0 ELSE CardsGone(events))
            /\ pc' = "cycle" /\ deck' # <<>> => HandsFull(hands')]_vars

\* a turn boundary after a dead card was discarded and a card was played:
\* the deck is empty and the hand of the player is short of cards_in_hand
C37_Witness ==
    /\ pc = "cycle"
    /\ deck = <<>>
    /\ HasEvent("ui.notify_dead_card_discard")
    /\ HasEvent("query_move")
    /\ \E p \in DOMAIN hands : Len(hands[p]) < cards_in_hand_table[Len(players)]

----------------------------------------------------------------------------
(* play_game: a match of ten players, who hold three cards each *)

\* two teams of five
TenPlayers == SetupTeams(<<5, 5>>, "none")

\* shuffles that deal the first player the cards of (0, 1) and (0, 2) and a
\* one-eyed Jack, and three one-eyed Jacks
MixedHandTop == <<"6D", "7D", "JS">>
OneEyedHandTop == <<"JS", "JS", "JH">>
TenShuffles == {Stacked(MixedHandTop), Stacked(OneEyedHandTop)}

InitTen == GameEntry(TenPlayers)

\* every strategy discards its dead cards and plays the first move of
\* RandomStrategy's list
NextTen ==
    \/ StartGameFrom(TenShuffles)
    \/ BeginTurnBefore(MaxMatchTurns)
    \/ DeadCardsAnswering({TRUE})
    \/ QueryMoveOf("first")

SpecTen == InitTen /\ [][NextTen]_vars

\* C39: when play_game calls query_move, after the test of the empty hand and
\* the loop over the dead cards of the turn, the hand of the player holds a
\* card, and a card for which iter_moves yields a move
C39_PlayableCardAtQuery ==
    pc = "query_move" =>
        /\ hands[Seat(turn)] # <<>>
        /\ \E card \in Range(hands[Seat(turn)]) :
                iter_moves(chips, card, Color(Seat(turn))) # <<>>

----------------------------------------------------------------------------
(* play_game: a match of two players who move as their UI tells them *)

InitHuman == GameEntry(SetupTeams(<<1, 1>>, "none"))

NextHuman ==
    \/ StartGame
    \/ BeginTurn
    \/ DeadCards
    \/ QueryMoveOf("human")

SpecHuman == InitHuman /\ [][NextHuman]_vars

\* the calls that show a move or a draw to the UI and to the strategies
MoveNotices == {"ui.play_chip", "ui.remove_chip", "notify_move", "deck.pop", "notify_pickup"}

\* C40: a move that the Board rejects leaves play_game as IllegalMove after
\* the card has left the hand of the player: the board, the deck and the
\* other hands are as before, the hand is the hand without the card, the
\* turn's calls end with query_move and the call of the Board, with no call
\* that shows the move to the UI or to another strategy and no draw, and
\* play_game has returned nothing; and every move that leaves the board as it
\* was ends play_game this way
C40_RejectedMove ==
    [][MoveStep =>
        /\ chips' = chips => pc' = "IllegalMove"
        /\ pc' = "IllegalMove" =>
            LET player == Seat(turn)
                said == events'[Len(events')]
            IN  /\ chips' = chips
                /\ deck' = deck
                /\ result' = "None"
                /\ Len(events') = Len(events) + 2
                /\ SubSeq(events', 1, Len(events)) = events
                /\ events'[Len(events) + 1] = <<"query_move", player, said[3]>>
                /\ said[1] \in {"put_chip", "remove_chip"}
                /\ said[3] \in Range(hands[player])
                /\ hands' = [hands EXCEPT ![player] = remove_first(@, said[3])]
                /\ Len(hands'[player]) = Len(hands[player]) - 1
                /\ \A k \in (Len(events) + 1)..Len(events') : events'[k][1] \notin MoveNotices
      ]_vars

\* play_game has raised IllegalMove for a removal in a later turn, with chips
\* on the board and cards in the deck
C40_Witness ==
    /\ pc = "IllegalMove"
    /\ turn > 1
    /\ chips # EmptyBoard
    /\ deck # <<>>
    /\ events[Len(events)][1] = "remove_chip"
    /\ Len(hands[Seat(turn)]) = params[Seat(turn)].cards_in_hand - 1

----------------------------------------------------------------------------
(* The end of a match *)

\* the strategy asked for a move returns a legal move of a card of the hand,
\* and the turn goes on with it
StrategyMoves == pc = "query_move" /\ pc' \in {"cycle", "returned"}

\* play_game runs on while it has not returned or raised: the setup, the top
\* of the loop and the loop over the dead cards take their next step, and
\* every strategy asked for a move returns one
SpecMatchFair ==
    /\ SpecMatch
    /\ WF_vars(StartGameFrom(MatchShuffles))
    /\ WF_vars(BeginTurnBefore(MaxMatchTurns))
    /\ WF_vars(DeadCardsAnswering({TRUE}))
    /\ WF_pc(StrategyMoves)

\* play_game has returned a team, on the answer "Exit" to game_over or at a
\* player with an empty hand
ReturnedTeam ==
    /\ pc = "returned"
    /\ result \in Range(board_teams)
    /\ \/ HasEvent("player_has_empty_hand")
       \/ EventsNamed(events, "game_over") # <<>>
            /\ events[Len(events)] = <<"game_over", actors[Len(actors)], "Exit">>

\* C38: when every strategy asked for a move returns a legal move of a card
\* of its hand, play_game returns: it begins at most 105 turns, and it
\* returns a team, on a win or at a player whose hand is empty, which is the
\* way a match that went on after its game_over ends
C38_Terminates ==
    /\ <>(pc = "returned")
    /\ [](turn <= 105)
    /\ [](pc = "returned" => ReturnedTeam)
    /\ [](pc = "returned" /\ keep_playing => HasEvent("player_has_empty_hand"))

\* a match that went on after its game_over has returned at a player with an
\* empty hand after more than a hundred turns
C38_Witness ==
    /\ ReturnedTeam
    /\ keep_playing
    /\ game_overs = 1
    /\ HasEvent("player_has_empty_hand")
    /\ turn > 100

====
